---------------------------- MODULE Spec2Model ----------------------------
(***************************************************************************)
(* A model of codectx: the gitignore-style exclusion engine                *)
(* (internal/git: GitIgnoreParser), the directory scanner and its tree     *)
(* (internal/scanner), the file filter (internal/filter), the size limits  *)
(* (internal/limits), the formatter (internal/formatter) and the part of   *)
(* cmd/root.go's run that wires them together.                             *)
(*                                                                         *)
(* Go strings are modelled as sequences of one-character strings, so that  *)
(* trimming, prefix tests, splitting and glob matching are computed the    *)
(* way the code computes them.                                             *)
(***************************************************************************)
EXTENDS Integers, Sequences, FiniteSets, TLC

(***************************************************************************)
(* strings                                                                 *)
(***************************************************************************)

\* The characters the model uses, in ascending byte order.
Chars ==
  << "\t", "\r", " ", "!", "#", "*", ",", "-", ".", "/", "?", "[", "\\", "]", "^", "_",
     "a", "b", "c", "d", "e", "f", "g", "h", "i", "j", "k", "l", "m", "n",
     "o", "p", "q", "r", "s", "t", "u", "v", "w", "x", "y", "z" >>

\* The position of character c in byte order.
Code(c) == CHOOSE i \in 1..Len(Chars) : Chars[i] = c

\* s[i:] of Go, with i counted from 0.
From(s, i) == SubSeq(s, i + 1, Len(s))

\* unicode.IsSpace on the characters of the model.
IsSpace(c) == c \in {" ", "\t", "\r"}

RECURSIVE TrimLeft(_)
TrimLeft(s) ==
  IF s # <<>> /\ IsSpace(Head(s)) THEN TrimLeft(Tail(s)) ELSE s

RECURSIVE TrimRight(_)
TrimRight(s) ==
  IF s # <<>> /\ IsSpace(s[Len(s)]) THEN TrimRight(SubSeq(s, 1, Len(s) - 1)) ELSE s

\* strings.TrimSpace
TrimSpace(s) == TrimRight(TrimLeft(s))

\* strings.HasPrefix
HasPrefix(s, prefix) ==
  Len(s) >= Len(prefix) /\ SubSeq(s, 1, Len(prefix)) = prefix

\* strings.HasSuffix
HasSuffix(s, suffix) ==
  Len(s) >= Len(suffix) /\ SubSeq(s, Len(s) - Len(suffix) + 1, Len(s)) = suffix

\* strings.Contains for a one-character substring.
Contains(s, c) == \E i \in 1..Len(s) : s[i] = c

\* strings.Split(s, sep) for a one-character sep: the pieces between
\* separators, empty pieces kept.
RECURSIVE SplitFrom(_, _, _, _)
SplitFrom(s, sep, i, cur) ==
  IF i > Len(s) THEN << cur >>
  ELSE IF s[i] = sep THEN << cur >> \o SplitFrom(s, sep, i + 1, <<>>)
  ELSE SplitFrom(s, sep, i + 1, Append(cur, s[i]))

SplitOn(s, sep) == SplitFrom(s, sep, 1, <<>>)

\* strings.Split(s, "/")
Split(s) == SplitOn(s, "/")

\* a < b on Go strings: byte-wise lexicographic order.
RECURSIVE Less(_, _)
Less(a, b) ==
  IF b = <<>> THEN FALSE
  ELSE IF a = <<>> THEN TRUE
  ELSE IF Head(a) = Head(b) THEN Less(Tail(a), Tail(b))
  ELSE Code(Head(a)) < Code(Head(b))

\* strings.Join(parts, "/")
RECURSIVE Join(_)
Join(parts) ==
  IF parts = <<>> THEN <<>>
  ELSE IF Len(parts) = 1 THEN parts[1]
  ELSE parts[1] \o << "/" >> \o Join(Tail(parts))

(***************************************************************************)
(* filepath.Match, as ShouldIgnore and ShouldInclude call it.  Only the    *)
(* boolean is modelled: every caller in the repository either drops the    *)
(* error or requires it to be nil together with matched, and matched is    *)
(* false whenever the error is not nil.                                    *)
(***************************************************************************)

\* scanChunk: the index (from 0) where the chunk that starts at p[0] ends.
RECURSIVE ChunkEnd(_, _, _)
ChunkEnd(p, i, inrange) ==
  IF i >= Len(p) THEN i
  ELSE LET c == p[i + 1] IN
    IF c = "\\" THEN ChunkEnd(p, (IF i + 1 < Len(p) THEN i + 2 ELSE i + 1), inrange)
    ELSE IF c = "[" THEN ChunkEnd(p, i + 1, TRUE)
    ELSE IF c = "]" THEN ChunkEnd(p, i + 1, FALSE)
    ELSE IF c = "*" /\ ~inrange THEN i
    ELSE ChunkEnd(p, i + 1, inrange)

RECURSIVE SkipStars(_)
SkipStars(p) == IF p # <<>> /\ Head(p) = "*" THEN SkipStars(Tail(p)) ELSE p

\* scanChunk: leading stars, then the text up to the next star outside a class.
scanChunk(pattern) ==
  LET p == SkipStars(pattern)
      i == ChunkEnd(p, 0, FALSE)
  IN [star |-> Len(p) < Len(pattern), chunk |-> SubSeq(p, 1, i), rest |-> From(p, i)]

\* getEsc: one character of a class, possibly escaped.
getEsc(chunk) ==
  IF chunk = <<>> \/ chunk[1] = "-" \/ chunk[1] = "]"
  THEN [r |-> "", nchunk |-> <<>>, err |-> TRUE]
  ELSE LET c == IF chunk[1] = "\\" THEN Tail(chunk) ELSE chunk IN
    IF c = <<>> THEN [r |-> "", nchunk |-> <<>>, err |-> TRUE]
    ELSE [r |-> c[1], nchunk |-> Tail(c), err |-> Len(c) = 1]

\* classRanges taking the end of the pattern for the closing bracket.
RECURSIVE classRangesUnterminated(_, _, _, _)
classRangesUnterminated(chunk, r, match, nrange) ==
  IF nrange > 0 /\ (chunk = <<>> \/ chunk[1] = "]")
  THEN [chunk |-> (IF chunk = <<>> THEN chunk ELSE Tail(chunk)), match |-> match,
        err |-> FALSE]
  ELSE LET lo == getEsc(chunk) IN
    IF lo.err /\ lo.r = "" THEN [chunk |-> <<>>, match |-> FALSE, err |-> TRUE]
    ELSE LET hi == IF lo.nchunk # <<>> /\ lo.nchunk[1] = "-"
                     THEN getEsc(Tail(lo.nchunk)) ELSE lo IN
      IF hi.err /\ hi.r = "" THEN [chunk |-> <<>>, match |-> FALSE, err |-> TRUE]
      ELSE classRangesUnterminated(hi.nchunk, r,
                       match \/ (r # "" /\ Code(lo.r) <= Code(r) /\ Code(r) <= Code(hi.r)),
                       nrange + 1)

\* The range loop of a character class: r is the character read ("" when the
\* match has failed already).
RECURSIVE classRanges(_, _, _, _)
classRanges(chunk, r, match, nrange) ==
  IF chunk # <<>> /\ chunk[1] = "]" /\ nrange > 0
  THEN [chunk |-> Tail(chunk), match |-> match, err |-> FALSE]
  ELSE LET lo == getEsc(chunk) IN
    IF lo.err THEN [chunk |-> <<>>, match |-> FALSE, err |-> TRUE]
    ELSE LET hi == IF lo.nchunk[1] = "-" THEN getEsc(Tail(lo.nchunk)) ELSE lo IN
      IF hi.err THEN [chunk |-> <<>>, match |-> FALSE, err |-> TRUE]
      ELSE classRanges(hi.nchunk, r,
                       match \/ (r # "" /\ Code(lo.r) <= Code(r) /\ Code(r) <= Code(hi.r)),
                       nrange + 1)

\* matchChunk: does chunk match a prefix of s, and what is left of s.
RECURSIVE matchLoop(_, _, _)
matchLoop(chunk, s, failed0) ==
  IF chunk = <<>> THEN
    (IF failed0 THEN [rest |-> <<>>, ok |-> FALSE, err |-> FALSE]
     ELSE [rest |-> s, ok |-> TRUE, err |-> FALSE])
  ELSE LET failed == failed0 \/ s = <<>> IN
    IF chunk[1] = "[" THEN
      LET r == IF failed THEN "" ELSE s[1]
          s1 == IF failed THEN s ELSE Tail(s)
          c1 == Tail(chunk)
          negated == c1 # <<>> /\ c1[1] = "^"
          cls == classRanges((IF negated THEN Tail(c1) ELSE c1), r, FALSE, 0)
      IN IF cls.err THEN [rest |-> <<>>, ok |-> FALSE, err |-> TRUE]
         ELSE matchLoop(cls.chunk, s1, failed \/ (cls.match = negated))
    ELSE IF chunk[1] = "?" THEN
      matchLoop(Tail(chunk), (IF failed THEN s ELSE Tail(s)),
                failed \/ s[1] = "/")
    ELSE LET c == IF chunk[1] = "\\" THEN Tail(chunk) ELSE chunk IN
      IF c = <<>> THEN [rest |-> <<>>, ok |-> FALSE, err |-> TRUE]
      ELSE matchLoop(Tail(c), (IF failed THEN s ELSE Tail(s)),
                     failed \/ c[1] # s[1])

matchChunk(chunk, s) == matchLoop(chunk, s, FALSE)

\* The loop of Match that, after a star, looks for the chunk further right in
\* name without crossing a separator.  Returns the index tried last and what
\* was found there.
RECURSIVE starSkip(_, _, _, _)
starSkip(chunk, name, i, lastChunk) ==
  IF ~(i < Len(name) /\ name[i + 1] # "/") THEN [found |-> FALSE, rest |-> <<>>]
  ELSE LET m == matchChunk(chunk, From(name, i + 1)) IN
    IF m.ok THEN
      (IF lastChunk /\ Len(m.rest) > 0 THEN starSkip(chunk, name, i + 1, lastChunk)
       ELSE [found |-> TRUE, rest |-> m.rest])
    ELSE IF m.err THEN [found |-> FALSE, rest |-> <<>>]
    ELSE starSkip(chunk, name, i + 1, lastChunk)

\* filepath.Match(pattern, name): the matched result.
RECURSIVE Match(_, _)
Match(pattern, name) ==
  IF pattern = <<>> THEN name = <<>>
  ELSE LET sc == scanChunk(pattern) IN
    IF sc.star /\ sc.chunk = <<>> THEN ~Contains(name, "/")
    ELSE LET m == matchChunk(sc.chunk, name) IN
      IF m.ok /\ (Len(m.rest) = 0 \/ Len(sc.rest) > 0) THEN Match(sc.rest, m.rest)
      ELSE IF m.err THEN FALSE
      ELSE IF sc.star THEN
        LET k == starSkip(sc.chunk, name, 0, sc.rest = <<>>) IN
          k.found /\ Match(sc.rest, k.rest)
      ELSE FALSE

(***************************************************************************)
(* paths (path/filepath on a Unix build, where Separator is '/')            *)
(***************************************************************************)

\* The elements of a cleaned path: empty and "." elements dropped, ".."
\* cancelled against the element before it.
RECURSIVE cleanElems(_, _, _)
cleanElems(parts, acc, rooted) ==
  IF parts = <<>> THEN acc
  ELSE LET e == Head(parts) IN
    IF e = <<>> \/ e = << "." >> THEN cleanElems(Tail(parts), acc, rooted)
    ELSE IF e = << ".", "." >> THEN
      (IF acc # <<>> /\ acc[Len(acc)] # << ".", "." >>
         THEN cleanElems(Tail(parts), SubSeq(acc, 1, Len(acc) - 1), rooted)
       ELSE IF rooted THEN cleanElems(Tail(parts), acc, rooted)
       ELSE cleanElems(Tail(parts), Append(acc, e), rooted))
    ELSE cleanElems(Tail(parts), Append(acc, e), rooted)

IsAbs(path) == path # <<>> /\ path[1] = "/"

\* filepath.Clean
Clean(path) ==
  LET elems == cleanElems(Split(path), <<>>, IsAbs(path)) IN
    IF IsAbs(path) THEN << "/" >> \o Join(elems)
    ELSE IF elems = <<>> THEN << "." >>
    ELSE Join(elems)

\* filepath.Join(a, b): the non-empty elements joined by '/', then cleaned.
JoinPath(a, b) ==
  IF a = <<>> /\ b = <<>> THEN <<>>
  ELSE IF a = <<>> THEN Clean(b)
  ELSE IF b = <<>> THEN Clean(a)
  ELSE Clean(a \o << "/" >> \o b)

\* The index of the last '/' of path, 0 when it has none.
LastSlash(path) ==
  IF Contains(path, "/") THEN CHOOSE i \in 1..Len(path) :
       path[i] = "/" /\ \A j \in (i + 1)..Len(path) : path[j] # "/"
  ELSE 0

RECURSIVE TrimSlashes(_)
TrimSlashes(path) ==
  IF path # <<>> /\ path[Len(path)] = "/" THEN TrimSlashes(SubSeq(path, 1, Len(path) - 1))
  ELSE path

\* filepath.Base
Base(path) ==
  IF path = <<>> THEN << "." >>
  ELSE LET p == TrimSlashes(path) IN
    IF p = <<>> THEN << "/" >> ELSE From(p, LastSlash(p))

\* filepath.Dir
Dir(path) == Clean(SubSeq(path, 1, LastSlash(path)))

\* filepath.Rel(basepath, targpath) for cleaned arguments: err is set when one
\* path is absolute and the other is not, or when basepath cannot be climbed.
RECURSIVE commonLen(_, _)
commonLen(b, t) ==
  IF b # <<>> /\ t # <<>> /\ Head(b) = Head(t) THEN 1 + commonLen(Tail(b), Tail(t)) ELSE 0

Rel(basepath, targpath) ==
  LET base == Clean(basepath)
      targ == Clean(targpath)
  IN IF targ = base THEN [path |-> << "." >>, err |-> FALSE]
     ELSE IF IsAbs(base) # IsAbs(targ) THEN [path |-> <<>>, err |-> TRUE]
     ELSE LET b == cleanElems(Split(base), <<>>, FALSE)
              t == cleanElems(Split(targ), <<>>, FALSE)
              n == commonLen(b, t)
              bl == SubSeq(b, n + 1, Len(b))
              tl == SubSeq(t, n + 1, Len(t))
          IN IF bl # <<>> /\ bl[1] = << ".", "." >> THEN [path |-> <<>>, err |-> TRUE]
             ELSE [path |-> Join([i \in 1..Len(bl) |-> << ".", "." >>] \o tl), err |-> FALSE]

\* filepath.ToSlash: replaces Separator by '/', which on Unix changes nothing.
ToSlash(path) == path

(***************************************************************************)
(* the file system the program runs on                                     *)
(***************************************************************************)

rootDirName == << "/", "r" >>
gitignoreName == << ".", "g", "i", "t", "i", "g", "n", "o", "r", "e" >>
buildName == << "b", "u", "i", "l", "d" >>
genGo == << "g", "e", "n", ".", "g", "o" >>
importantLog == << "i", "m", "p", "o", "r", "t", "a", "n", "t", ".", "l", "o", "g" >>
otherLog == << "o", "t", "h", "e", "r", ".", "l", "o", "g" >>
mainGo == << "m", "a", "i", "n", ".", "g", "o" >>
srcName == << "s", "r", "c" >>
subName == << "s", "u", "b" >>
testFileGo == << "t", "e", "s", "t", "_", "f", "i", "l", "e", ".", "g", "o" >>
goneLog == << "g", "o", "n", "e", ".", "l", "o", "g" >>
outsideLog == << "/", "o", "/", "o", "t", "h", "e", "r", ".", "l", "o", "g" >>
hiddenName == << ".", "h", "i", "d" >>

\* The absolute path of the entry with these elements below the root.
Under(elems) == rootDirName \o << "/" >> \o Join(elems)

\* The directories and the regular files on disk.  build is a directory at
\* the top and a regular file inside src; .hid holds one directory, which
\* holds one file.
Dirs ==
  { rootDirName, Under(<< buildName >>), Under(<< srcName >>),
    Under(<< srcName, subName >>), Under(<< hiddenName >>),
    Under(<< hiddenName, subName >>), << "/", "o" >> }

Files ==
  { Under(<< gitignoreName >>), Under(<< buildName, genGo >>),
    Under(<< importantLog >>), Under(<< otherLog >>), Under(<< mainGo >>),
    Under(<< srcName, gitignoreName >>), Under(<< srcName, buildName >>),
    Under(<< srcName, mainGo >>), Under(<< srcName, subName, testFileGo >>),
    Under(<< hiddenName, subName, mainGo >>), outsideLog }

\* os.Stat(path): err when nothing is there, else whether it is a directory.
Stat(path) ==
  [err |-> path \notin Dirs \cup Files, IsDir |-> path \in Dirs]

rootIgnore == Under(<< gitignoreName >>)
subIgnore == Under(<< srcName, gitignoreName >>)
missingIgnore == Under(<< subName, gitignoreName >>)

(***************************************************************************)
(* internal/git: GitIgnoreParser                                           *)
(***************************************************************************)

VARIABLES
  content,   \* the lines of each .gitignore file on disk
  rootDir,   \* GitIgnoreParser.rootDir
  patterns,  \* GitIgnoreParser.patterns
  rules,     \* GitIgnoreParser.rules
  scanned,   \* history: every line scanner.Text() has returned, in order
  op         \* the last call and what it returned

gvars == << content, rootDir, patterns, rules, scanned, op >>

\* GitIgnoreRule with the negation marker left unhandled.
GitIgnoreRuleNoNegation(line) ==
  LET dir == HasSuffix(line, << "/" >>)
  IN [Pattern |-> IF dir THEN SubSeq(line, 1, Len(line) - 1) ELSE line,
      IsNegation |-> FALSE, IsDirectory |-> dir]

\* GitIgnoreRule with the directory marker left unhandled.
GitIgnoreRuleNoDirectory(line) ==
  LET neg == HasPrefix(line, << "!" >>)
  IN [Pattern |-> IF neg THEN From(line, 1) ELSE line,
      IsNegation |-> neg, IsDirectory |-> FALSE]

\* GitIgnoreRule rewriting the pattern: a leading '/' is dropped.
GitIgnoreRuleUnanchored(line) ==
  LET neg == HasPrefix(line, << "!" >>)
      p1 == IF neg THEN From(line, 1) ELSE line
      dir == HasSuffix(p1, << "/" >>)
      p2 == IF dir THEN SubSeq(p1, 1, Len(p1) - 1) ELSE p1
  IN [Pattern |-> IF HasPrefix(p2, << "/" >>) THEN From(p2, 1) ELSE p2,
      IsNegation |-> neg, IsDirectory |-> dir]

\* The rule ParseGitIgnore builds from a trimmed line that is no comment.
GitIgnoreRule(line) ==
  LET neg == HasPrefix(line, << "!" >>)
      p1 == IF neg THEN From(line, 1) ELSE line
      dir == HasSuffix(p1, << "/" >>)
      p2 == IF dir THEN SubSeq(p1, 1, Len(p1) - 1) ELSE p1
  IN [Pattern |-> p2, IsNegation |-> neg, IsDirectory |-> dir]

\* skipLine with the comment test dropped.
skipLineBlankOnly(line) == line = <<>>

\* The test of ParseGitIgnore that skips empty lines and comments.
skipLine(line) == line = <<>> \/ HasPrefix(line, << "#" >>)

\* scanLoop passing over a line whose pattern is in the list already.
RECURSIVE scanLoopNoDuplicates(_, _)
scanLoopNoDuplicates(lines, g) ==
  IF lines = <<>> THEN g
  ELSE LET line == TrimSpace(Head(lines)) IN
    IF skipLine(line) \/ \E i \in 1..Len(g.patterns) : g.patterns[i] = line
    THEN scanLoopNoDuplicates(Tail(lines), g)
    ELSE scanLoopNoDuplicates(Tail(lines),
                  [patterns |-> Append(g.patterns, line),
                   rules |-> Append(g.rules, GitIgnoreRule(line))])

\* The scanner loop of ParseGitIgnore over the lines of one file.
RECURSIVE scanLoop(_, _)
scanLoop(lines, g) ==
  IF lines = <<>> THEN g
  ELSE LET line == TrimSpace(Head(lines)) IN
    IF skipLine(line) THEN scanLoop(Tail(lines), g)
    ELSE scanLoop(Tail(lines),
                  [patterns |-> Append(g.patterns, line),
                   rules |-> Append(g.rules, GitIgnoreRule(line))])

\* ruleMatched with the loop over the suffixes dropped.
ruleMatchedFullPathOnly(rule, relPath) == Match(rule.Pattern, relPath)

\* Does the rule's pattern match relPath or one of its suffixes.
ruleMatched(rule, relPath) ==
  \/ Match(rule.Pattern, relPath)
  \/ LET parts == Split(relPath) IN
       \E j \in 0..(Len(parts) - 1) : Match(rule.Pattern, Join(From(parts, j)))

\* directoryRuleSkipped with the directory test dropped.
directoryRuleNeverSkipped(rule, filePath) == FALSE

\* The test of ShouldIgnore that passes over a matched directory rule: the
\* path cannot be stat'd or is no directory.
directoryRuleSkipped(rule, filePath) ==
  rule.IsDirectory /\ (Stat(filePath).err \/ ~Stat(filePath).IsDir)

\* afterLoop returning "ignore".
afterLoopIgnores == TRUE

\* What ShouldIgnore returns when the loop ends without a deciding rule.
afterLoop == FALSE

\* The reverse loop ending with "do not ignore" at a passed-over directory rule.
RECURSIVE ignoreLoopStopsAtSkipped(_, _, _, _)
ignoreLoopStopsAtSkipped(rs, i, relPath, filePath) ==
  IF i < 1 THEN afterLoop
  ELSE LET rule == rs[i] IN
    IF ruleMatched(rule, relPath) THEN
      IF rule.IsNegation THEN FALSE
      ELSE IF directoryRuleSkipped(rule, filePath) THEN FALSE
      ELSE TRUE
    ELSE ignoreLoopStopsAtSkipped(rs, i - 1, relPath, filePath)

\* The reverse loop of ShouldIgnore from rule i down.
RECURSIVE ignoreLoop(_, _, _, _)
ignoreLoop(rs, i, relPath, filePath) ==
  IF i < 1 THEN afterLoop
  ELSE LET rule == rs[i] IN
    IF ruleMatched(rule, relPath) THEN
      IF rule.IsNegation THEN FALSE
      ELSE IF directoryRuleSkipped(rule, filePath)
        THEN ignoreLoop(rs, i - 1, relPath, filePath)
      ELSE TRUE
    ELSE ignoreLoop(rs, i - 1, relPath, filePath)

\* GitIgnoreParser.ShouldIgnore on a parser with rules rs and root root.
ShouldIgnoreOf(rs, root, filePath) ==
  LET rel == Rel(root, filePath) IN
    IF rel.err THEN FALSE
    ELSE ignoreLoop(rs, Len(rs), ToSlash(rel.path), filePath)

\* Bounds of the model: lines per .gitignore file, lines scanned in a run.
MaxLines == 2
MaxScanned == 3

starLog == << "*", ".", "l", "o", "g" >>
notImportantLog == << "!", "i", "m", "p", "o", "r", "t", "a", "n", "t", ".", "l", "o", "g" >>
buildSlash == << "b", "u", "i", "l", "d", "/" >>
notBuildSlash == << "!", "b", "u", "i", "l", "d", "/" >>
testStar == << "t", "e", "s", "t", "_", "*" >>
commentLine == << "#", " ", "b", "u", "i", "l", "d" >>
blankLine == << >>
spacesLine == << " ", "\t" >>
paddedLog == << " ", " ", "*", ".", "l", "o", "g", " " >>
paddedNot == << "\t", "!", "b", "u", "i", "l", "d", "/", " " >>
paddedComment == << " ", "#", "!", "x" >>
bangLine == << "!" >>
slashLine == << "/" >>
anchoredBuild == << "/", "b", "u", "i", "l", "d" >>
unterminatedLog == << "*", ".", "l", "o", "[", "g" >>

\* Lines of .gitignore files in the runs that query the parser.
RuleLines ==
  { starLog, notImportantLog, buildSlash, buildName, notBuildSlash,
    unterminatedLog }

\* Lines of .gitignore files in the runs that exercise the line scanner.
RawLines ==
  { starLog, notImportantLog, buildSlash, notBuildSlash, commentLine, blankLine,
    spacesLine, paddedLog, paddedNot, paddedComment, bangLine, slashLine,
    anchoredBuild }

\* All sequences over S of length at most n.
RECURSIVE SeqsUpTo(_, _)
SeqsUpTo(S, n) ==
  IF n = 0 THEN { <<>> }
  ELSE LET shorter == SeqsUpTo(S, n - 1) IN
    shorter \cup { Append(q, x) : q \in { r \in shorter : Len(r) = n - 1 }, x \in S }

\* The paths ShouldIgnore is asked about: files and directories under the
\* root, a path under the root that does not exist, a file outside the root
\* and a relative path.
Candidates ==
  { Under(<< importantLog >>), Under(<< otherLog >>), Under(<< mainGo >>),
    Under(<< buildName >>), Under(<< buildName, genGo >>),
    Under(<< srcName, buildName >>), Under(<< srcName, subName, testFileGo >>),
    Under(<< goneLog >>), Under(<< subName, buildName >>), outsideLog, otherLog }

IgnoreFiles == { rootIgnore, subIgnore, missingIgnore }

NoOp == [name |-> "none", path |-> <<>>, err |-> FALSE, ret |-> FALSE]

\* NewGitIgnoreParser(rootDir), on a disk whose root .gitignore holds lines.
InitParser(lines) ==
  /\ content = [f \in { rootIgnore, subIgnore } |->
                  IF f = rootIgnore THEN lines ELSE << testStar >>]
  /\ rootDir = rootDirName
  /\ patterns = <<>>
  /\ rules = <<>>
  /\ scanned = <<>>
  /\ op = NoOp

\* ParseGitIgnore dropping the parser's rules when the file cannot be opened.
ParseGitIgnoreForgetful(gitignorePath) ==
  IF gitignorePath \notin DOMAIN content
  THEN /\ op' = [name |-> "ParseGitIgnore", path |-> gitignorePath,
                 err |-> TRUE, ret |-> FALSE]
       /\ patterns' = <<>>
       /\ rules' = <<>>
       /\ UNCHANGED << content, rootDir, scanned >>
  ELSE LET lines == content[gitignorePath]
           g == scanLoop(lines, [patterns |-> patterns, rules |-> rules])
       IN /\ Len(scanned) + Len(lines) <= MaxScanned
          /\ patterns' = g.patterns
          /\ rules' = g.rules
          /\ scanned' = scanned \o lines
          /\ op' = [name |-> "ParseGitIgnore", path |-> gitignorePath,
                    err |-> FALSE, ret |-> FALSE]
          /\ UNCHANGED << content, rootDir >>

\* ParseGitIgnore(gitignorePath)
ParseGitIgnore(gitignorePath) ==
  IF gitignorePath \notin DOMAIN content
  THEN /\ op' = [name |-> "ParseGitIgnore", path |-> gitignorePath,
                 err |-> TRUE, ret |-> FALSE]
       /\ UNCHANGED << content, rootDir, patterns, rules, scanned >>
  ELSE LET lines == content[gitignorePath]
           g == scanLoop(lines, [patterns |-> patterns, rules |-> rules])
       IN /\ Len(scanned) + Len(lines) <= MaxScanned
          /\ patterns' = g.patterns
          /\ rules' = g.rules
          /\ scanned' = scanned \o lines
          /\ op' = [name |-> "ParseGitIgnore", path |-> gitignorePath,
                    err |-> FALSE, ret |-> FALSE]
          /\ UNCHANGED << content, rootDir >>

\* ShouldIgnore forgetting the rules once it has answered "ignore".
ShouldIgnoreConsuming(filePath) ==
  LET ret == ShouldIgnoreOf(rules, rootDir, filePath) IN
    /\ op' = [name |-> "ShouldIgnore", path |-> filePath, err |-> FALSE, ret |-> ret]
    /\ rules' = IF ret THEN <<>> ELSE rules
    /\ UNCHANGED << content, rootDir, patterns, scanned >>

\* ShouldIgnore(filePath)
ShouldIgnore(filePath) ==
  /\ op' = [name |-> "ShouldIgnore", path |-> filePath, err |-> FALSE,
            ret |-> ShouldIgnoreOf(rules, rootDir, filePath)]
  /\ UNCHANGED << content, rootDir, patterns, rules, scanned >>

(***************************************************************************)
(* directory listing: os.ReadDir, filepath.Walk                            *)
(***************************************************************************)

\* The paths of S ascending by name (entries of one directory).
RECURSIVE sortByName(_)
sortByName(S) ==
  IF S = {} THEN <<>>
  ELSE LET m == CHOOSE x \in S : \A y \in S \ {x} : Less(x, y) IN
    << m >> \o sortByName(S \ {m})

\* os.ReadDir(dir): the entries of dir, sorted by file name.
ReadDir(dir) ==
  sortByName({ q \in (Dirs \cup Files) \ {dir} : Dir(q) = dir })

\* filepath.Walk(root, fn): the paths in the order fn is called on them.
RECURSIVE Walk(_)
RECURSIVE walkEach(_)
Walk(path) ==
  IF path \in Dirs THEN << path >> \o walkEach(ReadDir(path)) ELSE << path >>
walkEach(entries) ==
  IF entries = <<>> THEN <<>> ELSE Walk(Head(entries)) \o walkEach(Tail(entries))

\* The walk of ParseAllGitIgnores passing over a .gitignore it cannot open.
RECURSIVE parseWalkedSkipsUnreadable(_, _, _)
parseWalkedSkipsUnreadable(walked, files, g) ==
  IF walked = <<>> THEN [patterns |-> g.patterns, rules |-> g.rules, err |-> FALSE]
  ELSE IF Head(walked) \notin Dirs /\ Base(Head(walked)) = gitignoreName
          /\ Head(walked) \in DOMAIN files
    THEN parseWalkedSkipsUnreadable(Tail(walked), files, scanLoop(files[Head(walked)], g))
  ELSE parseWalkedSkipsUnreadable(Tail(walked), files, g)

\* The walk of ParseAllGitIgnores: ParseGitIgnore on every file named
\* .gitignore it meets; the first one that cannot be opened ends the walk
\* with the error.
RECURSIVE parseWalked(_, _, _)
parseWalked(walked, files, g) ==
  IF walked = <<>> THEN [patterns |-> g.patterns, rules |-> g.rules, err |-> FALSE]
  ELSE IF Head(walked) \notin Dirs /\ Base(Head(walked)) = gitignoreName
    THEN IF Head(walked) \notin DOMAIN files
           THEN [patterns |-> g.patterns, rules |-> g.rules, err |-> TRUE]
         ELSE parseWalked(Tail(walked), files, scanLoop(files[Head(walked)], g))
  ELSE parseWalked(Tail(walked), files, g)

ParseAllGitIgnoresOf(root, files) ==
  parseWalked(Walk(root), files, [patterns |-> <<>>, rules |-> <<>>])

\* The lines the scanners of that walk return, in order.
RECURSIVE linesWalked(_, _)
linesWalked(walked, files) ==
  IF walked = <<>> THEN <<>>
  ELSE IF Head(walked) \notin Dirs /\ Base(Head(walked)) = gitignoreName
    THEN IF Head(walked) \notin DOMAIN files THEN <<>>
         ELSE files[Head(walked)] \o linesWalked(Tail(walked), files)
  ELSE linesWalked(Tail(walked), files)

\* ParseAllGitIgnores()
ParseAllGitIgnores ==
  LET g == parseWalked(Walk(rootDir), content, [patterns |-> patterns, rules |-> rules])
      lines == linesWalked(Walk(rootDir), content)
  IN /\ Len(scanned) + Len(lines) <= MaxScanned
     /\ patterns' = g.patterns
     /\ rules' = g.rules
     /\ scanned' = scanned \o lines
     /\ op' = [name |-> "ParseAllGitIgnores", path |-> rootDir, err |-> g.err,
               ret |-> FALSE]
     /\ UNCHANGED << content, rootDir >>

(***************************************************************************)
(* internal/scanner: Scanner                                               *)
(***************************************************************************)

\* The order by base name alone.
childLessByName(a, b) == Less(Base(a), Base(b))

\* The order scanDir sorts children in: directories first, then by base name.
childLess(a, b) ==
  IF (a \in Dirs) # (b \in Dirs) THEN a \in Dirs ELSE Less(Base(a), Base(b))

\* sort.Slice(entry.Children, ...): the children in that order.
RECURSIVE sortChildren(_)
sortChildren(S) ==
  IF S = {} THEN <<>>
  ELSE LET m == CHOOSE x \in S : \A y \in S \ {x} : childLess(x, y) IN
    << m >> \o sortChildren(S \ {m})

\* A FileEntry.
FileEntry(path, isDir, children) ==
  [Path |-> path, IsDir |-> isDir, Children |-> children]

\* The nil *FileEntry.
NoEntry == FileEntry(<<>>, FALSE, <<>>)

\* scanDir skipping the dot files but not the dot directories.
RECURSIVE scanDirSkipsDotFilesOnly(_, _)
scanDirSkipsDotFilesOnly(dir, includeDotfiles) ==
  LET kept == { q \in (Dirs \cup Files) \ {dir} :
                  /\ Dir(q) = dir
                  /\ (includeDotfiles \/ q \in Dirs \/ ~HasPrefix(Base(q), << "." >>)) }
      sorted == sortChildren(kept)
  IN [k \in 1..Len(sorted) |->
        FileEntry(sorted[k], sorted[k] \in Dirs,
                  IF sorted[k] \in Dirs
                    THEN scanDirSkipsDotFilesOnly(sorted[k], includeDotfiles) ELSE <<>>)]

\* scanDir(entry): the Children of the entry of directory dir, each with its
\* own Children, in sorted order.
RECURSIVE scanDir(_, _)
scanDir(dir, includeDotfiles) ==
  LET kept == { q \in (Dirs \cup Files) \ {dir} :
                  /\ Dir(q) = dir
                  /\ (includeDotfiles \/ ~HasPrefix(Base(q), << "." >>)) }
      sorted == sortChildren(kept)
  IN [k \in 1..Len(sorted) |->
        FileEntry(sorted[k], sorted[k] \in Dirs,
                  IF sorted[k] \in Dirs THEN scanDir(sorted[k], includeDotfiles) ELSE <<>>)]

\* Scanner.Scan() of NewScanner(scannerRoot, includeDotfiles)
Scan(scannerRoot, includeDotfiles) ==
  IF Stat(scannerRoot).err \/ ~Stat(scannerRoot).IsDir
    THEN [root |-> NoEntry, err |-> TRUE]
  ELSE [root |-> FileEntry(scannerRoot, TRUE, scanDir(scannerRoot, includeDotfiles)),
        err |-> FALSE]

\* The box-drawing strings of the tree, with 'L' for the corner, '+' for the
\* tee, '|' for the vertical bar and '-' for the dash.
lastBranch == << "L", "-", "-", " " >>
midBranch == << "+", "-", "-", " " >>
barIndent == << "|", " ", " ", " " >>
blankIndent == << " ", " ", " ", " " >>

\* generateTreeRecursive: the lines written for the entry and below it.
RECURSIVE generateTreeRecursive(_, _, _, _)
RECURSIVE generateChildren(_, _, _, _)
generateTreeRecursive(entry, prefix, isLast, scannerRoot) ==
  IF entry.Path # scannerRoot
    THEN << prefix \o (IF isLast THEN lastBranch ELSE midBranch)
              \o Base(entry.Path) \o (IF entry.IsDir THEN << "/" >> ELSE <<>>) >>
         \o generateChildren(entry.Children, 1,
                             prefix \o (IF isLast THEN blankIndent ELSE barIndent),
                             scannerRoot)
  ELSE generateChildren(entry.Children, 1, prefix, scannerRoot)
generateChildren(children, i, prefix, scannerRoot) ==
  IF i > Len(children) THEN <<>>
  ELSE generateTreeRecursive(children[i], prefix, i = Len(children), scannerRoot)
       \o generateChildren(children, i + 1, prefix, scannerRoot)

\* Scanner.GenerateTree(root): the lines of the tree.
GenerateTree(rootEntry, scannerRoot) ==
  generateTreeRecursive(rootEntry, <<>>, TRUE, scannerRoot)

\* collectRelativePaths: "/" and the root-relative path of every file of the
\* entry and below it.
RECURSIVE collectRelativePaths(_, _)
RECURSIVE collectChildren(_, _, _)
collectRelativePaths(entry, scannerRoot) ==
  LET rel == Rel(scannerRoot, entry.Path) IN
    (IF ~entry.IsDir /\ ~rel.err THEN << << "/" >> \o rel.path >> ELSE <<>>)
    \o collectChildren(entry.Children, 1, scannerRoot)
collectChildren(children, i, scannerRoot) ==
  IF i > Len(children) THEN <<>>
  ELSE collectRelativePaths(children[i], scannerRoot)
       \o collectChildren(children, i + 1, scannerRoot)

\* Scanner.GetRelativePaths(root)
GetRelativePaths(rootEntry, scannerRoot) == collectRelativePaths(rootEntry, scannerRoot)

(***************************************************************************)
(* internal/filter: Filter                                                 *)
(***************************************************************************)

\* filepath.Ext: from the last dot of the last element, empty without one.
RECURSIVE extFrom(_, _)
extFrom(path, i) ==
  IF i < 1 \/ path[i] = "/" THEN <<>>
  ELSE IF path[i] = "." THEN From(path, i - 1)
  ELSE extFrom(path, i - 1)

Ext(path) == extFrom(path, Len(path))

\* NewFilter keeping the white space around the extensions.
NewFilterKeepsSpaces(extensions, excludePatterns, includeDotfiles) ==
  LET exts == IF extensions = <<>> THEN <<>> ELSE SplitOn(extensions, ",")
      pats == IF excludePatterns = <<>> THEN <<>> ELSE SplitOn(excludePatterns, ",")
  IN [Extensions |-> [i \in 1..Len(exts) |->
                        IF ~HasPrefix(exts[i], << "." >>) THEN << "." >> \o exts[i]
                        ELSE exts[i]],
      ExcludePatterns |-> [i \in 1..Len(pats) |-> TrimSpace(pats[i])],
      IncludeDotfiles |-> includeDotfiles,
      GitIgnoreParser |-> FALSE,
      GitTrackedOnly |-> FALSE,
      GitTrackedFiles |-> <<>>]

\* NewFilter(extensions, excludePatterns, includeDotfiles)
NewFilter(extensions, excludePatterns, includeDotfiles) ==
  LET exts == IF extensions = <<>> THEN <<>> ELSE SplitOn(extensions, ",")
      pats == IF excludePatterns = <<>> THEN <<>> ELSE SplitOn(excludePatterns, ",")
  IN [Extensions |-> [i \in 1..Len(exts) |->
                        LET ext == TrimSpace(exts[i]) IN
                          IF ~HasPrefix(ext, << "." >>) THEN << "." >> \o ext ELSE ext],
      ExcludePatterns |-> [i \in 1..Len(pats) |-> TrimSpace(pats[i])],
      IncludeDotfiles |-> includeDotfiles,
      GitIgnoreParser |-> FALSE,
      GitTrackedOnly |-> FALSE,
      GitTrackedFiles |-> <<>>]

\* SetGitIgnoreParser; the parser itself is the variables rootDir, patterns, rules.
SetGitIgnoreParser(f) == [f EXCEPT !.GitIgnoreParser = TRUE]

\* SetGitTrackedFiles
SetGitTrackedFiles(f, files) ==
  [f EXCEPT !.GitTrackedFiles = files, !.GitTrackedOnly = TRUE]

\* The tracked-files test of ShouldInclude.
isTracked(f, path) ==
  \E i \in 1..Len(f.GitTrackedFiles) :
    \/ f.GitTrackedFiles[i] = path
    \/ JoinPath(Dir(path), f.GitTrackedFiles[i]) = path

\* Filter.ShouldInclude(path), for a filter whose parser, when set, has rules
\* rs and root directory root.
ShouldIncludeOf(f, rs, root, path) ==
  LET base == Base(path) IN
    IF ~f.IncludeDotfiles /\ HasPrefix(base, << "." >>) THEN FALSE
    ELSE IF f.GitTrackedOnly /\ Len(f.GitTrackedFiles) > 0 /\ ~isTracked(f, path) THEN FALSE
    ELSE IF f.GitIgnoreParser /\ ShouldIgnoreOf(rs, root, path) THEN FALSE
    ELSE IF \E i \in 1..Len(f.ExcludePatterns) :
              \/ Match(f.ExcludePatterns[i], base)
              \/ Match(f.ExcludePatterns[i], path) THEN FALSE
    ELSE IF Len(f.Extensions) = 0 THEN TRUE
    ELSE \E i \in 1..Len(f.Extensions) : Ext(path) = f.Extensions[i]

(***************************************************************************)
(* internal/limits: ParseSize, SizeLimiter                                 *)
(*                                                                         *)
(* An int64 is kept as four 16-bit limbs, least significant first, read as *)
(* a two's complement number, so that multiplication wraps the way Go's    *)
(* does.                                                                   *)
(***************************************************************************)

LimbBase == 2 ^ 16

\* The number 0 in n limbs.
ZeroLimbs(n) == [i \in 1..n |-> 0]

\* x * m + a on limbs, where m and a are small; what does not fit into the
\* limbs of x is dropped.
RECURSIVE mulAddLimbs(_, _, _)
mulAddLimbs(x, m, a) ==
  IF x = <<>> THEN <<>>
  ELSE LET t == x[1] * m + a
       IN << t % LimbBase >> \o mulAddLimbs(Tail(x), m, t \div LimbBase)

\* int64 multiplication by a small factor.
mulInt64(x, m) == mulAddLimbs(x, m, 0)

\* math.MaxInt64
MaxInt64 == << LimbBase - 1, LimbBase - 1, LimbBase - 1, (LimbBase \div 2) - 1 >>

\* The int64 as an integer of the model, for the values that are at most
\* 2^31 - 1.
AsInt(x) == x[1] + x[2] * LimbBase

Digits == << "0", "1", "2", "3", "4", "5", "6", "7", "8", "9" >>

IsDigit(c) == \E i \in 1..Len(Digits) : Digits[i] = c

DigitValue(c) == (CHOOSE i \in 1..Len(Digits) : Digits[i] = c) - 1

LowerCase ==
  << "a", "b", "c", "d", "e", "f", "g", "h", "i", "j", "k", "l", "m", "n",
     "o", "p", "q", "r", "s", "t", "u", "v", "w", "x", "y", "z" >>

UpperCase ==
  << "A", "B", "C", "D", "E", "F", "G", "H", "I", "J", "K", "L", "M", "N",
     "O", "P", "Q", "R", "S", "T", "U", "V", "W", "X", "Y", "Z" >>

\* strings.ToUpper
ToUpper(s) ==
  [i \in 1..Len(s) |->
     IF \E k \in 1..Len(LowerCase) : LowerCase[k] = s[i]
       THEN UpperCase[CHOOSE k \in 1..Len(LowerCase) : LowerCase[k] = s[i]]
       ELSE s[i]]

\* The value of a string of digits on the limbs of acc.
RECURSIVE digitsValue(_, _)
digitsValue(s, acc) ==
  IF s = <<>> THEN acc
  ELSE digitsValue(Tail(s), mulAddLimbs(acc, 10, DigitValue(Head(s))))

\* strconv.ParseInt(s, 10, 64) on the strings ParseSize passes: digits only,
\* or nothing.  The value is computed on five limbs, which hold every string
\* of up to 24 digits, and is out of range from 2^63 on.
ParseInt(s) ==
  IF s = <<>> \/ \E i \in 1..Len(s) : ~IsDigit(s[i])
  THEN [value |-> ZeroLimbs(4), err |-> TRUE]
  ELSE LET v == digitsValue(s, ZeroLimbs(5)) IN
    IF v[5] > 0 \/ v[4] >= LimbBase \div 2
    THEN [value |-> MaxInt64, err |-> TRUE]
    ELSE [value |-> SubSeq(v, 1, 4), err |-> FALSE]

\* The loop of ParseSize that finds the first character that is no digit:
\* its index from 0, or -1.
RECURSIVE firstNonDigit(_, _)
firstNonDigit(s, i) ==
  IF i >= Len(s) THEN -1
  ELSE IF ~IsDigit(s[i + 1]) THEN i
  ELSE firstNonDigit(s, i + 1)

\* ParseSize(sizeStr)
ParseSizeOf(sizeStr) ==
  LET s == TrimSpace(sizeStr)
      lastDigitPos == firstNonDigit(s, 0)
  IN IF s = <<>> THEN [value |-> ZeroLimbs(4), err |-> FALSE]
     ELSE IF lastDigitPos = -1 THEN ParseInt(s)
     ELSE LET v == ParseInt(SubSeq(s, 1, lastDigitPos)) IN
       IF v.err THEN [value |-> ZeroLimbs(4), err |-> TRUE]
       ELSE LET unit == ToUpper(TrimSpace(From(s, lastDigitPos))) IN
         CASE unit = << "B" >> -> [value |-> v.value, err |-> FALSE]
           [] unit = << "K", "B" >> ->
                [value |-> mulInt64(v.value, 1024), err |-> FALSE]
           [] unit = << "M", "B" >> ->
                [value |-> mulInt64(mulInt64(v.value, 1024), 1024), err |-> FALSE]
           [] unit = << "G", "B" >> ->
                [value |-> mulInt64(mulInt64(mulInt64(v.value, 1024), 1024), 1024),
                 err |-> FALSE]
           [] OTHER -> [value |-> ZeroLimbs(4), err |-> TRUE]

\* A nil *SizeLimiter.
NilLimiter ==
  [nil |-> TRUE, MaxFileSize |-> 0, MaxTotalSize |-> 0, CurrentTotalSize |-> 0]

\* NewSizeLimiter(maxFileSize, maxTotalSize)
NewSizeLimiter(maxFileSize, maxTotalSize) ==
  LET p == ParseSizeOf(maxFileSize) IN
    IF maxFileSize # <<>> /\ p.err THEN [limiter |-> NilLimiter, err |-> TRUE]
    ELSE [limiter |->
            [nil |-> FALSE,
             MaxFileSize |-> IF maxFileSize # <<>> THEN AsInt(p.value) ELSE 1024 * 1024,
             MaxTotalSize |-> maxTotalSize,
             CurrentTotalSize |-> 0],
          err |-> FALSE]

\* The lines of the text files the formatter reads, each line given by its
\* length in bytes without the newline that ends it; the other files are
\* empty.  No line holds a character html.EscapeString rewrites.
fileLines(path) ==
  CASE path = Under(<< mainGo >>) -> << 3, 3 >>
    [] path = Under(<< otherLog >>) -> << 2, 0, 4 >>
    [] path = Under(<< importantLog >>) -> << 1024 * 1024 - 1 >>
    [] path = Under(<< buildName, genGo >>) -> << 1024 * 1024 >>
    [] OTHER -> << >>

\* The bytes of a file with the given lines.
RECURSIVE bytesOf(_)
bytesOf(lines) == IF lines = <<>> THEN 0 ELSE Head(lines) + 1 + bytesOf(Tail(lines))

\* fileInfo.Size()
FileSize(path) == bytesOf(fileLines(path))

\* CheckFileSize refusing a file of exactly the maximum size.
CheckFileSizeStrict(l, path) ==
  IF Stat(path).err THEN [ok |-> FALSE, size |-> 0, err |-> TRUE]
  ELSE [ok |-> ~(l.MaxFileSize > 0 /\ FileSize(path) >= l.MaxFileSize),
        size |-> FileSize(path), err |-> FALSE]

\* SizeLimiter.CheckFileSize(path)
CheckFileSizeOf(l, path) ==
  IF Stat(path).err THEN [ok |-> FALSE, size |-> 0, err |-> TRUE]
  ELSE [ok |-> ~(l.MaxFileSize > 0 /\ FileSize(path) > l.MaxFileSize),
        size |-> FileSize(path), err |-> FALSE]

\* AddToTotalSize refusing a total of exactly the maximum.
AddToTotalSizeStrict(l, size) ==
  LET total == l.CurrentTotalSize + size
  IN [limiter |-> [l EXCEPT !.CurrentTotalSize = total],
      ok |-> l.MaxTotalSize <= 0 \/ total < l.MaxTotalSize]

\* AddToTotalSize testing the total it had before the call.
AddToTotalSizeChecksBefore(l, size) ==
  LET total == l.CurrentTotalSize + size
  IN [limiter |-> [l EXCEPT !.CurrentTotalSize = total],
      ok |-> l.MaxTotalSize <= 0 \/ l.CurrentTotalSize <= l.MaxTotalSize]

\* AddToTotalSize leaving the total as it was when it refuses a size.
AddToTotalSizeRollsBack(l, size) ==
  LET total == l.CurrentTotalSize + size
      ok == l.MaxTotalSize <= 0 \/ total <= l.MaxTotalSize
  IN [limiter |-> IF ok THEN [l EXCEPT !.CurrentTotalSize = total] ELSE l,
      ok |-> ok]

\* SizeLimiter.AddToTotalSize(size)
AddToTotalSizeOf(l, size) ==
  LET total == l.CurrentTotalSize + size
  IN [limiter |-> [l EXCEPT !.CurrentTotalSize = total],
      ok |-> l.MaxTotalSize <= 0 \/ total <= l.MaxTotalSize]

(***************************************************************************)
(* internal/formatter: Formatter                                           *)
(***************************************************************************)

\* One thing written to the Writer: a file header, a content line (with the
\* bytes written for it and the limiter's total when it was written), a
\* message, a code fence or a footer.
Item(kind, path, lineNum, n, total) ==
  [kind |-> kind, path |-> path, lineNum |-> lineNum, n |-> n, total |-> total]

\* The number of decimal digits of a line number.
decimalWidth(lineNum) == IF lineNum < 10 THEN 1 ELSE IF lineNum < 100 THEN 2 ELSE 3

\* len(formattedLine) in text format: "%2d | %s\n", or the line and "\n".
textLineLen(showLineNumbers, lineNum, len) ==
  IF showLineNumbers
    THEN (IF decimalWidth(lineNum) < 2 THEN 2 ELSE decimalWidth(lineNum)) + 3 + len + 1
    ELSE len + 1

\* The scanner loop of formatFileContentText.
RECURSIVE textLoop(_, _, _, _, _, _, _)
textLoop(lines, lineNum, l, showLineNumbers, path, items, adds) ==
  IF lines = <<>> THEN [limiter |-> l, items |-> items, adds |-> adds, err |-> FALSE]
  ELSE LET n == textLineLen(showLineNumbers, lineNum, Head(lines)) IN
    IF ~l.nil /\ l.MaxTotalSize > 0 THEN
      LET a == AddToTotalSizeOf(l, n) IN
        IF ~a.ok
        THEN [limiter |-> a.limiter,
              items |-> Append(items, Item("truncated", path, lineNum, 0,
                                           a.limiter.CurrentTotalSize)),
              adds |-> Append(adds, n), err |-> FALSE]
        ELSE textLoop(Tail(lines), lineNum + 1, a.limiter, showLineNumbers, path,
                      Append(items, Item("line", path, lineNum, n,
                                         a.limiter.CurrentTotalSize)),
                      Append(adds, n))
    ELSE textLoop(Tail(lines), lineNum + 1, l, showLineNumbers, path,
                  Append(items, Item("line", path, lineNum, n, l.CurrentTotalSize)),
                  adds)

\* Formatter.formatFileContentText(path, relativePath)
formatFileContentText(l, showLineNumbers, path) ==
  LET chk == CheckFileSizeOf(l, path)
      header == Item("header", path, 0, 0, l.CurrentTotalSize)
  IN IF ~l.nil /\ chk.err
       THEN [limiter |-> l, items |-> <<>>, adds |-> <<>>, err |-> TRUE]
     ELSE IF ~l.nil /\ ~chk.ok
       THEN [limiter |-> l,
             items |-> << header, Item("tooLarge", path, 0, 0, l.CurrentTotalSize) >>,
             adds |-> <<>>, err |-> FALSE]
     ELSE IF Stat(path).err
       THEN [limiter |-> l, items |-> << header >>, adds |-> <<>>, err |-> TRUE]
     ELSE textLoop(fileLines(path), 1, l, showLineNumbers, path, << header >>, <<>>)

\* The bytes written for a line in Markdown format: "%d | %s\n", or the line
\* and "\n".
markdownLineLen(showLineNumbers, lineNum, len) ==
  IF showLineNumbers THEN decimalWidth(lineNum) + 3 + len + 1 ELSE len + 1

\* The bytes written for a line in HTML format: the line inside its span
\* elements and "\n".
htmlLineLen(showLineNumbers, lineNum, len) ==
  IF showLineNumbers THEN 19 + 26 + decimalWidth(lineNum) + 7 + len + 8
  ELSE 19 + len + 8

\* The scanner loops of formatFileContentMarkdown and formatFileContentHTML:
\* every line of the file is written.
allLines(format, showLineNumbers, lines, path, total) ==
  [k \in 1..Len(lines) |->
     Item("line", path, k,
          (IF format = "markdown" THEN markdownLineLen(showLineNumbers, k, lines[k])
           ELSE htmlLineLen(showLineNumbers, k, lines[k])),
          total)]

\* Formatter.formatFileContentMarkdown(path, relativePath)
formatFileContentMarkdown(l, showLineNumbers, path) ==
  LET opening == << Item("header", path, 0, 0, l.CurrentTotalSize),
                    Item("fence", path, 0, 0, l.CurrentTotalSize) >>
  IN IF Stat(path).err
       THEN [limiter |-> l, items |-> opening, adds |-> <<>>, err |-> TRUE]
     ELSE [limiter |-> l,
           items |-> opening
                     \o allLines("markdown", showLineNumbers, fileLines(path), path,
                                 l.CurrentTotalSize)
                     \o << Item("fence", path, 0, 0, l.CurrentTotalSize) >>,
           adds |-> <<>>, err |-> FALSE]

\* Formatter.formatFileContentHTML(path, relativePath)
formatFileContentHTML(l, showLineNumbers, path) ==
  LET header == Item("header", path, 0, 0, l.CurrentTotalSize)
  IN IF Stat(path).err
       THEN [limiter |-> l, items |-> << header >>, adds |-> <<>>, err |-> TRUE]
     ELSE [limiter |-> l,
           items |-> << header >>
                     \o allLines("html", showLineNumbers, fileLines(path), path,
                                 l.CurrentTotalSize)
                     \o << Item("footer", path, 0, 0, l.CurrentTotalSize) >>,
           adds |-> <<>>, err |-> FALSE]

\* Formatter.formatFileContentJSON(path, relativePath): the entry appended to
\* jsonOutput.Files, when there is a jsonOutput.
formatFileContentJSON(json, path) ==
  IF Stat(path).err THEN [json |-> json, err |-> TRUE]
  ELSE [json |->
          IF json.nil THEN json
          ELSE [json EXCEPT !.Files =
                  Append(@, [Path |-> path, SizeBytes |-> FileSize(path),
                             LineCount |-> Len(fileLines(path)),
                             Content |-> fileLines(path)])],
        err |-> FALSE]

VARIABLES
  limiter,          \* Formatter.SizeLimiter: the SizeLimiter, or nil
  format,           \* Formatter.Format
  showLineNumbers,  \* Formatter.ShowLineNumbers
  jsonOutput,       \* Formatter.jsonOutput
  writer,           \* what has been written to Formatter.Writer, in order
  added,            \* history: the sizes passed to AddToTotalSize, in order
  calls,            \* history: the FormatFileContent calls and their outcome
  fop               \* the last call on the limiter or formatter and its result

fvars == << limiter, format, showLineNumbers, jsonOutput, writer, added, calls, fop >>

\* Bounds of the model: FormatFileContent calls and AddToTotalSize calls in a
\* run.
MaxFormatCalls == 2
MaxAdds == 3

Formats == { "text", "html", "markdown", "json" }

\* --max-file-size values: none given, "0" and "8B".
MaxFileSizes == { << >>, << "0" >>, << "8", "B" >> }

\* --limit values of the runs that format files.
CharLimits == { 0, 8, 12 }

\* maxTotalSize values and sizes of the runs that call the limiter.
TotalLimits == { -1, 0, 5, 10 }
Sizes == { 0, 1, 5, 6 }

\* The files formatted: two small ones, one of exactly 1MB, one a byte
\* larger, and one that does not exist.
FormatPaths ==
  { Under(<< mainGo >>), Under(<< otherLog >>), Under(<< importantLog >>),
    Under(<< buildName, genGo >>), Under(<< goneLog >>) }

\* The strings given to ParseSize: a numeric part, spaces or none, a unit or
\* none, with and without whitespace around.
SizeNumbers ==
  { << >>, << "0" >>, << "7" >>, << "1", "2" >>, << "0", "0", "7" >>,
    << "1", ".", "5" >>, << "-", "1" >>,
    << "8", "5", "8", "9", "9", "3", "4", "5", "9", "2" >>,
    << "1", "7", "1", "7", "9", "8", "6", "9", "1", "8", "4" >>,
    << "9", "2", "2", "3", "3", "7", "2", "0", "3", "6", "8", "5", "4", "7", "7",
       "5", "8", "0", "7" >>,
    << "9", "2", "2", "3", "3", "7", "2", "0", "3", "6", "8", "5", "4", "7", "7",
       "5", "8", "0", "8" >> }

SizeUnits ==
  { << >>, << "B" >>, << "K", "B" >>, << "M", "B" >>, << "G", "B" >>,
    << "k", "b" >>, << "M", "b" >>, << "g", "B" >>, << "T", "B" >>, << "K" >> }

SizeInputs ==
  { pad[1] \o num \o sp \o unit \o pad[2] :
      pad \in { << << >>, << >> >>, << << " " >>, << "\t" >> >> },
      num \in SizeNumbers, sp \in { << >>, << " " >> }, unit \in SizeUnits }

NoCall ==
  [name |-> "none", path |-> <<>>, size |-> 0, ok |-> FALSE, err |-> FALSE,
   value |-> <<>>, mark |-> 0]

\* A nil *JSONOutput.
NoJSON == [nil |-> TRUE, Files |-> <<>>]

\* No limiter and no formatter in use.
NoFormatter ==
  /\ limiter = NilLimiter
  /\ format = "text"
  /\ showLineNumbers = FALSE
  /\ jsonOutput = NoJSON
  /\ writer = <<>>
  /\ added = <<>>
  /\ calls = <<>>
  /\ fop = NoCall

\* NewFormatter(format, showLineNumbers, "", sizeLimiter, nil)
NewFormatter(fmt, sln, sizeLimiter) ==
  /\ limiter = sizeLimiter
  /\ format = fmt
  /\ showLineNumbers = sln
  /\ jsonOutput = NoJSON
  /\ writer = <<>>
  /\ added = <<>>
  /\ calls = <<>>
  /\ fop = NoCall

\* ParseSize(sizeStr)
ParseSize(sizeStr) ==
  /\ fop' = [name |-> "ParseSize", path |-> sizeStr, size |-> 0, ok |-> FALSE,
             err |-> ParseSizeOf(sizeStr).err, value |-> ParseSizeOf(sizeStr).value,
             mark |-> 0]
  /\ UNCHANGED << limiter, format, showLineNumbers, jsonOutput, writer, added, calls >>

\* limiter.CheckFileSize(path)
CheckFileSize(path) ==
  /\ ~limiter.nil
  /\ LET chk == CheckFileSizeOf(limiter, path)
     IN fop' = [name |-> "CheckFileSize", path |-> path, size |-> chk.size,
                ok |-> chk.ok, err |-> chk.err, value |-> <<>>, mark |-> Len(writer)]
  /\ UNCHANGED << limiter, format, showLineNumbers, jsonOutput, writer, added, calls >>

\* limiter.AddToTotalSize(size)
AddToTotalSize(size) ==
  /\ ~limiter.nil
  /\ Len(added) < MaxAdds
  /\ LET a == AddToTotalSizeOf(limiter, size)
     IN /\ limiter' = a.limiter
        /\ fop' = [name |-> "AddToTotalSize", path |-> <<>>, size |-> size,
                   ok |-> a.ok, err |-> FALSE, value |-> <<>>, mark |-> Len(writer)]
  /\ added' = Append(added, size)
  /\ UNCHANGED << format, showLineNumbers, jsonOutput, writer, calls >>

\* formatter.FormatTree(tree), called once.
FormatTree ==
  /\ jsonOutput.nil
  /\ \A k \in 1..Len(writer) : writer[k].kind # "tree"
  /\ IF format = "json"
       THEN jsonOutput' = [nil |-> FALSE, Files |-> <<>>] /\ writer' = writer
       ELSE jsonOutput' = jsonOutput
            /\ writer' = Append(writer, Item("tree", <<>>, 0, 0, limiter.CurrentTotalSize))
  /\ fop' = [name |-> "FormatTree", path |-> <<>>, size |-> 0, ok |-> FALSE,
             err |-> FALSE, value |-> <<>>, mark |-> Len(writer)]
  /\ UNCHANGED << limiter, format, showLineNumbers, added, calls >>

\* The number of items of a kind among items.
CountKind(items, kind) == Cardinality({ k \in 1..Len(items) : items[k].kind = kind })

\* formatter.FormatFileContent(path, relativePath)
FormatFileContent(path) ==
  /\ Len(calls) < MaxFormatCalls
  /\ LET j == formatFileContentJSON(jsonOutput, path)
         r == CASE format = "text" -> formatFileContentText(limiter, showLineNumbers, path)
                [] format = "markdown" ->
                     formatFileContentMarkdown(limiter, showLineNumbers, path)
                [] format = "html" -> formatFileContentHTML(limiter, showLineNumbers, path)
                [] format = "json" ->
                     [limiter |-> limiter, items |-> <<>>, adds |-> <<>>, err |-> j.err]
     IN /\ limiter' = r.limiter
        /\ writer' = writer \o r.items
        /\ added' = added \o r.adds
        /\ jsonOutput' = IF format = "json" THEN j.json ELSE jsonOutput
        /\ calls' = Append(calls,
             [path |-> path, err |-> r.err,
              lines |-> IF format = "json"
                          THEN (IF Len(j.json.Files) > Len(jsonOutput.Files)
                                  THEN Len(fileLines(path)) ELSE 0)
                          ELSE CountKind(r.items, "line"),
              skipped |-> CountKind(r.items, "tooLarge") > 0,
              truncated |-> CountKind(r.items, "truncated") > 0])
        /\ fop' = [name |-> "FormatFileContent", path |-> path, size |-> 0,
                   ok |-> FALSE, err |-> r.err, value |-> <<>>, mark |-> Len(writer)]
  /\ UNCHANGED << format, showLineNumbers >>

(***************************************************************************)
(* cmd/root.go: Execute and run                                            *)
(***************************************************************************)

VARIABLES
  pc,        \* where the command is: "lib", "start", "run", "scan", "files",
             \* "done", or "panic" after a nil pointer dereference
  argv,      \* the command line given
  flags,     \* the command line flags after flag.Parse
  tracked,   \* what git ls-files prints in the target directory
  filter,    \* the Filter run builds
  paths,     \* scanner.GetRelativePaths(root)
  idx,       \* the position of the file loop in paths
  output,    \* the relative paths handed to FormatFileContent, in order
  root,      \* the entry scanner.Scan returned
  tree,      \* scanner.GenerateTree(root), line by line
  statsCollector,          \* run's statsCollector: "nil" or "set"
  advancedStatsCollector   \* run's advancedStatsCollector: "nil" or "set"

rvars ==
  << pc, argv, flags, tracked, filter, paths, idx, output, root, tree,
     statsCollector, advancedStatsCollector >>

vars == << gvars, rvars, fvars >>

goExt == << "g", "o" >>
srcMainGo == << "s", "r", "c", "/", "m", "a", "i", "n", ".", "g", "o" >>
srcSubTestFileGo ==
  << "s", "r", "c", "/", "s", "u", "b", "/",
     "t", "e", "s", "t", "_", "f", "i", "l", "e", ".", "g", "o" >>

\* The directory codectx is run on.
targetDir == rootDirName

\* Command lines: each flag given or not; --ignore-gitignore may be given
\* bare or with =false; analysis stands for one or more of --health-check,
\* --complexity-analysis and --language-stats.
Argv ==
  [ respectGitignore : BOOLEAN, ignoreGitignore : { "unset", "true", "false" },
    gitOnly : BOOLEAN, includeDotfiles : BOOLEAN,
    extensions : { <<>>, goExt }, exclude : { <<>>, testStar },
    stats : BOOLEAN, analysis : BOOLEAN ]

\* flag.Parse with the defaults Execute declares: --ignore-gitignore is true
\* unless the command line sets it to false.
ParseFlags(args) ==
  [ respectGitignoreFlag |-> args.respectGitignore,
    ignoreGitignoreFlag |-> args.ignoreGitignore # "false",
    gitOnlyFlag |-> args.gitOnly,
    includeDotfiles |-> args.includeDotfiles,
    extensionsFlag |-> args.extensions,
    excludeFlag |-> args.exclude,
    statsFlag |-> args.stats,
    analysisFlag |-> args.analysis ]

NoArgs ==
  [ respectGitignore |-> FALSE, ignoreGitignore |-> "unset",
    gitOnly |-> FALSE, includeDotfiles |-> FALSE,
    extensions |-> <<>>, exclude |-> <<>>, stats |-> FALSE, analysis |-> FALSE ]

NoFlags == ParseFlags(NoArgs)

\* The root .gitignore files and the git indexes of the command's runs.
RunIgnores == { << starLog, notImportantLog >>, << buildSlash >>, <<>> }

TrackedLists ==
  { <<>>, << mainGo >>, << srcMainGo >>, << importantLog, srcSubTestFileGo >> }

\* utils.IsTextFile: every file of this disk is text.
IsTextFile(path) == path \in Files

\* The state before Execute: no parser, no filter.
InitRun ==
  /\ content \in { [f \in { rootIgnore, subIgnore } |->
                      IF f = rootIgnore THEN lines ELSE << testStar >>] : lines \in RunIgnores }
  /\ rootDir = <<>>
  /\ patterns = <<>>
  /\ rules = <<>>
  /\ scanned = <<>>
  /\ op = NoOp
  /\ pc = "start"
  /\ argv = NoArgs
  /\ flags = NoFlags
  /\ tracked \in TrackedLists
  /\ filter = NewFilter(<<>>, <<>>, FALSE)
  /\ paths = <<>>
  /\ idx = 0
  /\ output = <<>>
  /\ root = NoEntry
  /\ tree = <<>>
  /\ statsCollector = "nil"
  /\ advancedStatsCollector = "nil"
  /\ NoFormatter

\* Execute: parse the flags and call run.
Execute(args) ==
  /\ pc = "start"
  /\ argv' = args
  /\ flags' = ParseFlags(args)
  /\ pc' = "run"
  /\ UNCHANGED << gvars, tracked, filter, paths, idx, output, root, tree,
                  statsCollector, advancedStatsCollector, fvars >>

\* run, the statistics collectors: with --stats and an analysis flag
\* CollectAdvancedStats walks the target directory, and walkErr says that
\* the walk or the reading of a file fails; it returns nil and the error
\* then, run prints the warning and reads the StatsCollector field of what
\* was returned.
collectStats(walkErr) ==
  /\ pc = "run"
  /\ LET advancedStatsEnabled == flags.statsFlag /\ flags.analysisFlag IN
       IF advancedStatsEnabled THEN
         IF walkErr
           THEN /\ advancedStatsCollector' = "nil"
                /\ statsCollector' = statsCollector
                /\ pc' = "panic"
           ELSE /\ advancedStatsCollector' = "set"
                /\ statsCollector' = "set"
                /\ pc' = "scan"
       ELSE /\ advancedStatsCollector' = advancedStatsCollector
            /\ statsCollector' = IF flags.statsFlag THEN "set" ELSE statsCollector
            /\ pc' = "scan"
  /\ UNCHANGED << gvars, argv, flags, tracked, filter, paths, idx, output, root, tree,
                  fvars >>

\* run, from the scan up to the file loop: scan the tree, build the filter,
\* parse the .gitignore files when asked to, set the tracked files.
runSetup ==
  /\ pc = "scan"
  /\ LET scan == Scan(targetDir, flags.includeDotfiles)
         gitTrackedFiles == IF flags.gitOnlyFlag THEN tracked ELSE <<>>
         f0 == NewFilter(flags.extensionsFlag, flags.excludeFlag, flags.includeDotfiles)
         useIgnore == flags.respectGitignoreFlag /\ ~flags.ignoreGitignoreFlag
         g == ParseAllGitIgnoresOf(targetDir, content)
         f1 == IF useIgnore /\ ~g.err THEN SetGitIgnoreParser(f0) ELSE f0
         f2 == IF flags.gitOnlyFlag /\ Len(gitTrackedFiles) > 0
                 THEN SetGitTrackedFiles(f1, gitTrackedFiles) ELSE f1
     IN /\ root' = scan.root
        /\ tree' = IF scan.err THEN tree ELSE GenerateTree(scan.root, targetDir)
        /\ paths' = IF scan.err THEN paths ELSE GetRelativePaths(scan.root, targetDir)
        /\ pc' = IF scan.err THEN "done" ELSE "files"
        /\ filter' = f2
        /\ rootDir' = IF useIgnore THEN targetDir ELSE rootDir
        /\ patterns' = IF useIgnore THEN g.patterns ELSE patterns
        /\ rules' = IF useIgnore THEN g.rules ELSE rules
        /\ scanned' = IF useIgnore THEN linesWalked(Walk(targetDir), content) ELSE scanned
  /\ idx' = 1
  /\ UNCHANGED << content, op, argv, flags, tracked, output, statsCollector,
                  advancedStatsCollector, fvars >>

\* One round of run's file loop.
processFile ==
  /\ pc = "files"
  /\ idx <= Len(paths)
  /\ LET relPath == paths[idx]
         fullPath == JoinPath(targetDir, From(relPath, 1))
         cleanRelPath == From(relPath, 1)
         include == ShouldIncludeOf(filter, rules, rootDir, fullPath)
     IN /\ op' = [name |-> "ShouldInclude", path |-> fullPath, err |-> FALSE,
                  ret |-> include]
        /\ output' = IF include /\ IsTextFile(fullPath)
                       THEN Append(output, cleanRelPath) ELSE output
  /\ idx' = idx + 1
  /\ UNCHANGED << content, rootDir, patterns, rules, scanned, pc, argv, flags,
                  tracked, filter, paths, root, tree, statsCollector,
                  advancedStatsCollector, fvars >>

\* The end of run.
finish ==
  /\ pc = "files"
  /\ idx > Len(paths)
  /\ pc' = "done"
  /\ UNCHANGED << gvars, argv, flags, tracked, filter, paths, idx, output, root, tree,
                  statsCollector, advancedStatsCollector, fvars >>

(***************************************************************************)
(* specifications                                                          *)
(***************************************************************************)

\* The parser used as a library: no command is running.
LibraryUse ==
  /\ pc = "lib"
  /\ argv = NoArgs
  /\ flags = NoFlags
  /\ tracked = <<>>
  /\ filter = NewFilter(<<>>, <<>>, FALSE)
  /\ paths = <<>>
  /\ idx = 0
  /\ output = <<>>
  /\ root = NoEntry
  /\ tree = <<>>
  /\ statsCollector = "nil"
  /\ advancedStatsCollector = "nil"

\* Parsing and querying, over every root .gitignore of rule lines.
Init ==
  /\ \E lines \in SeqsUpTo(RuleLines, MaxLines) : InitParser(lines)
  /\ LibraryUse
  /\ NoFormatter

Parse == \E f \in IgnoreFiles : ParseGitIgnore(f) /\ UNCHANGED << rvars, fvars >>

Query == \E c \in Candidates : ShouldIgnore(c) /\ UNCHANGED << rvars, fvars >>

Next == Parse \/ Query

Spec == Init /\ [][Next]_vars

\* Parsing alone, over every root .gitignore of raw lines.
InitParse ==
  /\ \E lines \in SeqsUpTo(RawLines, MaxLines) : InitParser(lines)
  /\ LibraryUse
  /\ NoFormatter

NextParse == Parse

ParseSpec == InitParse /\ [][NextParse]_vars

\* The command.
NextRun ==
  \/ \E args \in Argv : Execute(args)
  \/ \E walkErr \in BOOLEAN : collectStats(walkErr)
  \/ runSetup
  \/ processFile
  \/ finish

RunSpec == InitRun /\ [][NextRun]_vars

\* The formatter over a limiter, as run builds them: files are formatted and
\* their sizes checked.
InitFormat ==
  /\ InitParser(<<>>)
  /\ LibraryUse
  /\ \E fmt \in Formats, sln \in BOOLEAN,
        l \in { NilLimiter } \cup
              { NewSizeLimiter(m, t).limiter : m \in MaxFileSizes, t \in CharLimits } :
        NewFormatter(fmt, sln, l)

Tree == FormatTree /\ UNCHANGED << gvars, rvars >>

Format == \E p \in FormatPaths : FormatFileContent(p) /\ UNCHANGED << gvars, rvars >>

Check == \E p \in FormatPaths : CheckFileSize(p) /\ UNCHANGED << gvars, rvars >>

NextFormat == Tree \/ Format \/ Check

FormatSpec == InitFormat /\ [][NextFormat]_vars

\* ParseAllGitIgnores and queries, over .gitignore files of the root and of
\* src, each of which may be one that cannot be opened.
WalkRootLines == { <<>>, << buildName >>, << starLog, notImportantLog >> }

WalkSubLines == { << starLog >>, << testStar >>, << notImportantLog >> }

InitWalk ==
  /\ \E D \in SUBSET { rootIgnore, subIgnore } :
       \E r \in WalkRootLines, t \in WalkSubLines :
         content = [f \in D |-> IF f = rootIgnore THEN r ELSE t]
  /\ rootDir = rootDirName
  /\ patterns = <<>>
  /\ rules = <<>>
  /\ scanned = <<>>
  /\ op = NoOp
  /\ LibraryUse
  /\ NoFormatter

ParseAll == ParseAllGitIgnores /\ UNCHANGED << rvars, fvars >>

NextWalk == ParseAll \/ Query

WalkSpec == InitWalk /\ [][NextWalk]_vars

\* A filter and a scanner used on their own: ShouldInclude is asked about
\* paths and directories are scanned and printed.
FilterExtensions ==
  { <<>>, goExt, << " ", ".", "g", "o", " ", ",", " ", "l", "o", "g" >>, << "G", "O" >> }

FilterExcludes ==
  { <<>>, testStar,
    << " ", "m", "a", "i", "n", ".", "g", "o", " ", ",", "*", ".", "l", "o", "[", "g" >>,
    << "/", "r", "/", "s", "r", "c", "/", "*" >> }

FilterPaths ==
  { Under(<< mainGo >>), Under(<< otherLog >>), Under(<< importantLog >>),
    Under(<< gitignoreName >>), Under(<< srcName, buildName >>),
    Under(<< srcName, mainGo >>), Under(<< srcName, subName, testFileGo >>),
    Under(<< hiddenName >>), Under(<< hiddenName, subName, mainGo >>), mainGo }

ScanRoots ==
  { rootDirName, Under(<< srcName >>), Under(<< hiddenName >>),
    Under(<< mainGo >>), Under(<< goneLog >>) }

InitFilter ==
  /\ InitParser(<< starLog, notImportantLog >>)
  /\ pc = "lib"
  /\ \E e \in FilterExtensions, x \in FilterExcludes, d \in BOOLEAN :
       argv = [NoArgs EXCEPT !.extensions = e, !.exclude = x, !.includeDotfiles = d]
  /\ flags = ParseFlags(argv)
  /\ tracked \in { <<>>, << mainGo >> }
  /\ \E withParser \in BOOLEAN :
       LET f0 == NewFilter(flags.extensionsFlag, flags.excludeFlag, flags.includeDotfiles)
           f1 == IF withParser THEN SetGitIgnoreParser(f0) ELSE f0
       IN filter = IF tracked # <<>> THEN SetGitTrackedFiles(f1, tracked) ELSE f1
  /\ paths = <<>>
  /\ idx = 0
  /\ output = <<>>
  /\ root = NoEntry
  /\ tree = <<>>
  /\ statsCollector = "nil"
  /\ advancedStatsCollector = "nil"
  /\ NoFormatter

\* filter.ShouldInclude(path)
ShouldInclude(path) ==
  /\ op' = [name |-> "ShouldInclude", path |-> path, err |-> FALSE,
            ret |-> ShouldIncludeOf(filter, rules, rootDir, path)]
  /\ UNCHANGED << content, rootDir, patterns, rules, scanned, rvars, fvars >>

\* NewScanner(scannerRoot, includeDotfiles), Scan and GenerateTree.
ScanAndGenerateTree(scannerRoot) ==
  LET scan == Scan(scannerRoot, flags.includeDotfiles) IN
    /\ root' = scan.root
    /\ tree' = IF scan.err THEN <<>> ELSE GenerateTree(scan.root, scannerRoot)
    /\ op' = [name |-> "Scan", path |-> scannerRoot, err |-> scan.err, ret |-> FALSE]
    /\ UNCHANGED << content, rootDir, patterns, rules, scanned, pc, argv, flags,
                    tracked, filter, paths, idx, output, statsCollector,
                    advancedStatsCollector, fvars >>

Include == \E p \in FilterPaths : ShouldInclude(p)

ScanTree == \E d \in ScanRoots : ScanAndGenerateTree(d)

NextFilter == Include \/ ScanTree

FilterSpec == InitFilter /\ [][NextFilter]_vars

\* The limiter on its own.
InitLimiter ==
  /\ InitParser(<<>>)
  /\ LibraryUse
  /\ \E m \in MaxFileSizes, t \in TotalLimits :
        NewFormatter("text", FALSE, NewSizeLimiter(m, t).limiter)

Add == \E size \in Sizes : AddToTotalSize(size) /\ UNCHANGED << gvars, rvars >>

NextLimiter == Add \/ Check

LimiterSpec == InitLimiter /\ [][NextLimiter]_vars

\* ParseSize on its own: a string is chosen and ParseSize is called on it.
InitSize ==
  /\ InitParser(<<>>)
  /\ LibraryUse
  /\ limiter = NilLimiter
  /\ format = "text"
  /\ showLineNumbers = FALSE
  /\ jsonOutput = NoJSON
  /\ writer = <<>>
  /\ added = <<>>
  /\ calls = <<>>
  /\ fop \in { [NoCall EXCEPT !.path = s] : s \in SizeInputs }

Size == fop.name = "none" /\ ParseSize(fop.path) /\ UNCHANGED << gvars, rvars >>

NextSize == Size

SizeSpec == InitSize /\ [][NextSize]_vars

(***************************************************************************)
(* properties                                                              *)
(***************************************************************************)

\* The last call was ShouldIgnore on a path below the root directory.
QueriedUnderRoot ==
  op.name = "ShouldIgnore" /\ HasPrefix(op.path, rootDirName \o << "/" >>)

\* The root-relative text of a path below the root directory.
RelativePath(path) == From(path, Len(rootDirName) + 1)

\* The path and what is left of it after dropping leading segments.
Suffixes(relPath) ==
  { Join(From(Split(relPath), j)) : j \in 0..(Len(Split(relPath)) - 1) }

\* The rule's pattern matches the path or one of its suffixes.
PatternHits(rule, relPath) == \E sfx \in Suffixes(relPath) : Match(rule.Pattern, sfx)

\* The rule matches the candidate: its pattern does, and a directory-only
\* rule matches directories only.
RuleApplies(rule, path, relPath) ==
  PatternHits(rule, relPath) /\ (rule.IsDirectory => path \in Dirs)

Applying(path, relPath) ==
  { i \in 1..Len(rules) : RuleApplies(rules[i], path, relPath) }

Last(S) == CHOOSE i \in S : \A j \in S : j <= i

\* C1: for a path under the root, ShouldIgnore is decided by the
\* last-declared rule that matches it: a negation rule gives "do not
\* ignore", any other rule gives "ignore".
C1_LastMatchWins ==
  QueriedUnderRoot =>
    LET A == Applying(op.path, RelativePath(op.path)) IN
      A # {} => (op.ret = ~rules[Last(A)].IsNegation)

\* C2: with the single rule "build/", a regular file named build is kept and
\* a directory named build is ignored; a non-negated directory-only rule
\* never causes a candidate that is no directory to be ignored.
C2_DirectoryRuleNeedsDirectory ==
  QueriedUnderRoot =>
    /\ (scanned = << buildSlash >> /\ Base(op.path) = buildName)
         => (op.ret = (op.path \in Dirs))
    /\ (op.ret /\ op.path \notin Dirs)
         => \E i \in 1..Len(rules) :
              /\ ~rules[i].IsNegation
              /\ ~rules[i].IsDirectory
              /\ PatternHits(rules[i], RelativePath(op.path))

\* C2 witness: the only line parsed is "build/" and the regular file
\* src/build was asked about and kept.
C2_Witness ==
  /\ QueriedUnderRoot
  /\ scanned = << buildSlash >>
  /\ op.path = Under(<< srcName, buildName >>)
  /\ ~op.ret

WithoutDirectoryRules(rs) == SelectSeq(rs, LAMBDA r : ~r.IsDirectory)

\* C3: for a candidate that is no directory, the result of ShouldIgnore is
\* the result with every directory-only rule, negated or not, removed.
C3_DirectoryRulesSkippedForFiles ==
  (QueriedUnderRoot /\ op.path \notin Dirs) =>
    (op.ret = ShouldIgnoreOf(WithoutDirectoryRules(rules), rootDir, op.path))

\* C6: with the single rule "test_*" the nested path src/sub/test_file.go is
\* ignored; a single plain rule whose pattern has no slash ignores exactly
\* the candidates whose name it matches, at whatever depth they lie.
C6_PatternAtAnyDepth ==
  QueriedUnderRoot =>
    /\ (scanned = << testStar >> /\ op.path = Under(<< srcName, subName, testFileGo >>))
         => op.ret
    /\ (/\ Len(rules) = 1
        /\ ~rules[1].IsNegation
        /\ ~rules[1].IsDirectory
        /\ ~Contains(rules[1].Pattern, "/"))
         => (op.ret = Match(rules[1].Pattern, Base(op.path)))

\* C6 witness: the only line parsed is "test_*" and src/sub/test_file.go was
\* asked about and ignored.
C6_Witness ==
  /\ QueriedUnderRoot
  /\ scanned = << testStar >>
  /\ op.path = Under(<< srcName, subName, testFileGo >>)
  /\ op.ret

\* C7: ShouldIgnore returns false for every candidate that lies outside the
\* root directory or cannot be made relative to it.
C7_OutsideRootKept ==
  (/\ op.name = "ShouldIgnore"
   /\ ~HasPrefix(op.path, rootDirName \o << "/" >>)
   /\ op.path # rootDirName)
    => ~op.ret

\* C8: ShouldIgnore returns false when the rule set is empty, and for any
\* rule set when no rule matches the path.
C8_DefaultKeep ==
  op.name = "ShouldIgnore" =>
    LET rel == Rel(rootDir, op.path) IN
      (rules = <<>> \/ rel.err \/ Applying(op.path, rel.path) = {}) => ~op.ret

\* C8 witness: rules were parsed, one of them is a directory rule whose
\* pattern fits the candidate, none matches it, and the candidate was kept.
C8_Witness ==
  /\ QueriedUnderRoot
  /\ rules # <<>>
  /\ Applying(op.path, RelativePath(op.path)) = {}
  /\ \E i \in 1..Len(rules) : PatternHits(rules[i], RelativePath(op.path))
  /\ ~op.ret

\* A line that is blank, whitespace only, or a comment.
Skippable(line) ==
  \/ \A i \in 1..Len(line) : IsSpace(line[i])
  \/ \E k \in 1..Len(line) :
       line[k] = "#" /\ \A j \in 1..(k - 1) : IsSpace(line[j])

\* The lines scanned so far that are not skippable, in order.
KeptLines == SelectSeq(scanned, LAMBDA l : ~Skippable(l))

\* C9: blank, whitespace-only and comment lines produce no rule and no
\* entry in patterns; every other line produces exactly one of each.
C9_OneRulePerKeptLine ==
  /\ Len(rules) = Len(KeptLines)
  /\ Len(patterns) = Len(KeptLines)
  /\ \A i \in 1..Len(KeptLines) : i <= Len(patterns) => patterns[i] = TrimSpace(KeptLines[i])

\* C9 witness: a comment or whitespace line and a rule line have been
\* scanned, and one rule exists.
C9_Witness ==
  /\ op.name = "ParseGitIgnore"
  /\ \E i \in 1..Len(scanned) : Skippable(scanned[i]) /\ scanned[i] # <<>>
  /\ Len(scanned) = 2
  /\ Len(rules) = 1

\* The text with one trailing '/' removed, when it has one.
WithoutTrailingSlash(t) ==
  IF t # <<>> /\ t[Len(t)] = "/" THEN SubSeq(t, 1, Len(t) - 1) ELSE t

\* C10 as stated: a line beginning with '!' gives a negation rule whose
\* Pattern is the line's text with the leading '!' removed; other lines give
\* IsNegation = false.
C10_NegationAsStated ==
  \A i \in 1..Len(KeptLines) : i <= Len(rules) =>
    LET t == TrimSpace(KeptLines[i]) IN
      IF HasPrefix(t, << "!" >>)
        THEN rules[i].IsNegation /\ rules[i].Pattern = Tail(t)
        ELSE ~rules[i].IsNegation

\* C10 amended: a line whose trimmed text begins with '!' gives a negation
\* rule whose Pattern is that text with the leading '!' removed and then one
\* trailing '/' removed, when there is one; other lines give IsNegation =
\* false.
C10_Negation ==
  \A i \in 1..Len(KeptLines) : i <= Len(rules) =>
    LET t == TrimSpace(KeptLines[i]) IN
      IF HasPrefix(t, << "!" >>)
        THEN rules[i].IsNegation /\ rules[i].Pattern = WithoutTrailingSlash(Tail(t))
        ELSE ~rules[i].IsNegation

\* C10 witness: the line "!build/" has been parsed into a negation rule.
C10_Witness ==
  \E i \in 1..Len(KeptLines) :
    /\ i <= Len(rules)
    /\ TrimSpace(KeptLines[i]) = notBuildSlash
    /\ rules[i].IsNegation

\* C4: run with --respect-gitignore and no other gitignore flag formats no
\* file that the rules of the tree's .gitignore files say to ignore.
C4_RespectGitignore ==
  (argv.respectGitignore /\ argv.ignoreGitignore = "unset") =>
    \A k \in 1..Len(output) :
      ~ShouldIgnoreOf(ParseAllGitIgnoresOf(targetDir, content).rules, targetDir,
                      JoinPath(targetDir, output[k]))

\* C5: with --git-only and a non-empty tracked list, ShouldInclude is true
\* for a file exactly when the file passes the other criteria and its
\* root-relative path is in the tracked list.
C5_GitOnlyTrackedFiles ==
  (op.name = "ShouldInclude" /\ argv.gitOnly /\ Len(tracked) > 0) =>
    (op.ret =
      (/\ \E i \in 1..Len(tracked) : tracked[i] = RelativePath(op.path)
       /\ ShouldIncludeOf([filter EXCEPT !.GitTrackedOnly = FALSE], rules, rootDir, op.path)))
\* The text with a leading '!' removed, when it has one.
WithoutLeadingBang(t) == IF HasPrefix(t, << "!" >>) THEN Tail(t) ELSE t

\* C11 as stated: a line ending with '/' gives a directory rule whose Pattern
\* is the line's text with the one trailing '/' removed; other lines give
\* IsDirectory = false.
C11_DirectoryAsStated ==
  \A i \in 1..Len(KeptLines) : i <= Len(rules) =>
    LET t == TrimSpace(KeptLines[i]) IN
      IF HasSuffix(t, << "/" >>)
        THEN rules[i].IsDirectory /\ rules[i].Pattern = SubSeq(t, 1, Len(t) - 1)
        ELSE ~rules[i].IsDirectory

\* C11 amended: a line whose trimmed text ends with '/' gives a directory
\* rule whose Pattern is that text with the one trailing '/' removed and a
\* leading '!' removed too, when there is one; other lines give
\* IsDirectory = false.
C11_Directory ==
  \A i \in 1..Len(KeptLines) : i <= Len(rules) =>
    LET t == TrimSpace(KeptLines[i]) IN
      IF HasSuffix(t, << "/" >>)
        THEN /\ rules[i].IsDirectory
             /\ rules[i].Pattern = WithoutLeadingBang(SubSeq(t, 1, Len(t) - 1))
        ELSE ~rules[i].IsDirectory

\* C11 witness: "build/" and "!build/" have both been parsed into directory
\* rules with the pattern "build".
C11_Witness ==
  /\ Len(rules) = 2
  /\ Len(KeptLines) = 2
  /\ { TrimSpace(KeptLines[1]), TrimSpace(KeptLines[2]) } = { buildSlash, notBuildSlash }
  /\ \A i \in 1..2 : rules[i].IsDirectory /\ rules[i].Pattern = buildName

\* C12 as stated: a line with no leading '!' and no trailing '/' gives a rule
\* whose Pattern is the line's raw text, neither negation nor directory.
C12_PlainLineAsStated ==
  \A i \in 1..Len(KeptLines) : i <= Len(rules) =>
    LET l == KeptLines[i] IN
      (~HasPrefix(l, << "!" >>) /\ ~HasSuffix(l, << "/" >>)) =>
        /\ rules[i].Pattern = l
        /\ ~rules[i].IsNegation
        /\ ~rules[i].IsDirectory

\* C12 amended: a line whose trimmed text has no leading '!' and no trailing
\* '/' gives a rule whose Pattern is the trimmed text, neither negation nor
\* directory.
C12_PlainLine ==
  \A i \in 1..Len(KeptLines) : i <= Len(rules) =>
    LET t == TrimSpace(KeptLines[i]) IN
      (~HasPrefix(t, << "!" >>) /\ ~HasSuffix(t, << "/" >>)) =>
        /\ rules[i].Pattern = t
        /\ ~rules[i].IsNegation
        /\ ~rules[i].IsDirectory

\* C12 witness: the padded line "  *.log " and the line "/build" have been
\* parsed into the plain rules "*.log" and "/build".
C12_Witness ==
  /\ KeptLines = << paddedLog, anchoredBuild >>
  /\ Len(rules) = 2
  /\ rules[1] = [Pattern |-> starLog, IsNegation |-> FALSE, IsDirectory |-> FALSE]
  /\ rules[2] = [Pattern |-> anchoredBuild, IsNegation |-> FALSE, IsDirectory |-> FALSE]

\* The rules and patterns of one source parsed on its own.
SourceOf(lines) == scanLoop(lines, [patterns |-> <<>>, rules |-> <<>>])

\* C13: every successful ParseGitIgnore call appends the rules of its source,
\* in line order, to the rules there were, and so with the patterns; nothing
\* is removed, reordered or de-duplicated.
C13_ParsingAppends ==
  [][(op'.name = "ParseGitIgnore" /\ ~op'.err) =>
       /\ rules' = rules \o SourceOf(content[op'.path]).rules
       /\ patterns' = patterns \o SourceOf(content[op'.path]).patterns]_vars

\* C13 witness: the same source has been parsed twice and its rules are
\* there twice.
C13_Witness ==
  /\ op.name = "ParseGitIgnore" /\ ~op.err
  /\ scanned = content[op.path] \o content[op.path]
  /\ SourceOf(content[op.path]).rules # <<>>
  /\ rules = SourceOf(content[op.path]).rules \o SourceOf(content[op.path]).rules

\* C14: a ParseGitIgnore call on a file that does not exist returns an error
\* and leaves patterns and rules as they were, and every ShouldIgnore answer
\* is computed from the rules of all the lines scanned so far.
C14_MissingSourceLeavesRules ==
  /\ [][(op'.name = "ParseGitIgnore" /\ op'.path \notin DOMAIN content) =>
          (op'.err /\ patterns' = patterns /\ rules' = rules)]_vars
  /\ [](op.name = "ShouldIgnore" =>
          op.ret = ShouldIgnoreOf(SourceOf(scanned).rules, rootDir, op.path))

\* C14 witness: after a file with rules was parsed, a call on a missing file
\* has returned an error and the rules are still there.
C14_Witness ==
  /\ op.name = "ParseGitIgnore" /\ op.err
  /\ op.path = missingIgnore
  /\ rules # <<>>
  /\ rules = SourceOf(content[rootIgnore]).rules

\* Is a bracket expression of the pattern left open at its end.
RECURSIVE openAt(_, _, _)
openAt(pattern, i, inrange) ==
  IF i > Len(pattern) THEN inrange
  ELSE IF pattern[i] = "\\" THEN openAt(pattern, i + 2, inrange)
  ELSE IF pattern[i] = "[" THEN openAt(pattern, i + 1, TRUE)
  ELSE IF pattern[i] = "]" THEN openAt(pattern, i + 1, FALSE)
  ELSE openAt(pattern, i + 1, inrange)

Unterminated(pattern) == openAt(pattern, 1, FALSE)

\* The rule list with the rule at position i taken out.
WithoutRule(rs, i) == SubSeq(rs, 1, i - 1) \o SubSeq(rs, i + 1, Len(rs))

\* C15: a rule whose pattern has an unterminated bracket expression matches
\* nothing: ShouldIgnore returns, and returns what it returns with that rule
\* taken out of the list.
C15_MalformedMatchesNothing ==
  op.name = "ShouldIgnore" =>
    /\ ~op.err
    /\ \A i \in 1..Len(rules) : Unterminated(rules[i].Pattern) =>
         op.ret = ShouldIgnoreOf(WithoutRule(rules, i), rootDir, op.path)

\* C15 witness: with "*.lo[g" the last rule, other.log has been queried and
\* kept.
C15_Witness ==
  /\ op.name = "ShouldIgnore" /\ ~op.ret
  /\ op.path = Under(<< otherLog >>)
  /\ rules # <<>>
  /\ rules[Len(rules)].Pattern = unterminatedLog
\* The bytes of the items of a kind among items.
RECURSIVE SumKind(_, _)
SumKind(items, kind) ==
  IF items = <<>> THEN 0
  ELSE (IF Head(items).kind = kind THEN Head(items).n ELSE 0) + SumKind(Tail(items), kind)

\* What the last call wrote.
Written == SubSeq(writer, fop.mark + 1, Len(writer))

\* C16: in text format with a character limit L > 0 a content line is
\* written only when the limiter's total with that line is at most L, so the
\* content lines written never total more than L; a line over the limit is
\* replaced by the truncation message, which ends the call without error.
C16_CharacterLimit ==
  (format = "text" /\ ~limiter.nil /\ limiter.MaxTotalSize > 0) =>
    /\ \A k \in 1..Len(writer) :
         /\ writer[k].kind = "line" => writer[k].total <= limiter.MaxTotalSize
         /\ writer[k].kind = "truncated" => writer[k].total > limiter.MaxTotalSize
    /\ SumKind(writer, "line") <= limiter.MaxTotalSize
    /\ fop.name = "FormatFileContent" =>
         /\ CountKind(Written, "truncated") > 0 =>
              /\ ~fop.err
              /\ CountKind(Written, "truncated") = 1
              /\ Written[Len(Written)].kind = "truncated"
         /\ (/\ ~fop.err
             /\ CountKind(Written, "tooLarge") = 0
             /\ CountKind(Written, "line") < Len(fileLines(fop.path)))
              => CountKind(Written, "truncated") = 1

\* C16 witness: content lines of exactly L bytes have been written and the
\* next file's first line was replaced by the truncation message.
C16_Witness ==
  /\ format = "text" /\ ~limiter.nil /\ limiter.MaxTotalSize > 0
  /\ fop.name = "FormatFileContent" /\ ~fop.err
  /\ SumKind(writer, "line") = limiter.MaxTotalSize
  /\ CountKind(Written, "truncated") = 1
  /\ CountKind(Written, "line") = 0

\* The sum of a sequence of sizes.
RECURSIVE Sum(_)
Sum(sizes) == IF sizes = <<>> THEN 0 ELSE Head(sizes) + Sum(Tail(sizes))

\* C17: CurrentTotalSize is the sum of all sizes passed to AddToTotalSize,
\* refused ones included, and a call returns true exactly when MaxTotalSize
\* is at most 0 or the new total is at most MaxTotalSize.
C17_TotalIsSumOfSizes ==
  /\ limiter.CurrentTotalSize = Sum(added)
  /\ fop.name = "AddToTotalSize" =>
       fop.ok = (limiter.MaxTotalSize <= 0 \/ Sum(added) <= limiter.MaxTotalSize)

\* C17 witness: two calls have brought the total to exactly the limit and
\* the last one returned true.
C17_Witness ==
  /\ fop.name = "AddToTotalSize" /\ fop.ok
  /\ limiter.MaxTotalSize > 0
  /\ Len(added) = 2
  /\ limiter.CurrentTotalSize = limiter.MaxTotalSize

\* The kinds of the items written by the last call.
WrittenKinds == [k \in 1..Len(Written) |-> Written[k].kind]

\* C18: CheckFileSize fails for a file that cannot be stat'd and otherwise
\* says "within the limit" exactly when MaxFileSize is at most 0 or the size
\* is at most MaxFileSize, which is 1MB when no size is given; in text format
\* a file over the limit gets its header and the "too large" message and
\* nothing else, the total stays as it was and no error is returned.
C18_FileSizeLimit ==
  /\ \A t \in CharLimits : NewSizeLimiter(<<>>, t).limiter.MaxFileSize = 1024 * 1024
  /\ fop.name = "CheckFileSize" =>
       IF Stat(fop.path).err THEN fop.err
       ELSE /\ ~fop.err
            /\ fop.size = FileSize(fop.path)
            /\ fop.ok = (limiter.MaxFileSize <= 0 \/ FileSize(fop.path) <= limiter.MaxFileSize)
  /\ (/\ fop.name = "FormatFileContent"
      /\ format = "text"
      /\ ~limiter.nil
      /\ ~Stat(fop.path).err
      /\ limiter.MaxFileSize > 0
      /\ FileSize(fop.path) > limiter.MaxFileSize)
       => /\ ~fop.err
          /\ WrittenKinds = << "header", "tooLarge" >>
          /\ limiter.CurrentTotalSize = Written[1].total

\* C18 witness: with the default of 1MB and content written before, the file
\* of 1MB and one byte has been formatted in text format.
C18_Witness ==
  /\ fop.name = "FormatFileContent"
  /\ format = "text"
  /\ fop.path = Under(<< buildName, genGo >>)
  /\ limiter.MaxFileSize = 1024 * 1024
  /\ limiter.CurrentTotalSize > 0
  /\ WrittenKinds = << "header", "tooLarge" >>

\* What formatFileContentText does with the files of the calls, one after
\* the other, from a limiter l.
RECURSIVE textRun(_, _, _)
textRun(l, sln, files) ==
  IF files = <<>> THEN <<>>
  ELSE LET r == formatFileContentText(l, sln, Head(files))
       IN << [skipped |-> CountKind(r.items, "tooLarge") > 0,
              truncated |-> CountKind(r.items, "truncated") > 0] >>
          \o textRun(r.limiter, sln, Tail(files))

\* C19: in every format, a file that text format skips as too large has none
\* of its content put out, and a file whose content text format cuts off at
\* the character limit does not have all of its content put out.
C19_LimitsInEveryFormat ==
  LET text == textRun([limiter EXCEPT !.CurrentTotalSize = 0], showLineNumbers,
                      [k \in 1..Len(calls) |-> calls[k].path])
  IN \A k \in 1..Len(calls) :
       /\ text[k].skipped => calls[k].lines = 0
       /\ text[k].truncated => calls[k].lines < Len(fileLines(calls[k].path))

\* The longest prefix of s that is all digits.
RECURSIVE digitPrefix(_)
digitPrefix(s) ==
  IF s # <<>> /\ IsDigit(Head(s)) THEN << Head(s) >> \o digitPrefix(Tail(s)) ELSE <<>>

\* The number of bytes the text t stands for, as a number without a width
\* (on seven limbs): digits, or digits, spaces and one of the units B, KB, MB
\* and GB in any letter case.
BytesMeant(t) ==
  LET d == digitPrefix(t)
      u == ToUpper(TrimLeft(From(t, Len(d))))
      number == digitsValue(d, ZeroLimbs(7))
      kb == mulAddLimbs(number, 1024, 0)
      mb == mulAddLimbs(kb, 1024, 0)
      gb == mulAddLimbs(mb, 1024, 0)
  IN IF t = <<>> THEN [value |-> ZeroLimbs(7), err |-> FALSE]
     ELSE IF d = <<>> THEN [value |-> ZeroLimbs(7), err |-> TRUE]
     ELSE IF Len(d) = Len(t) THEN [value |-> number, err |-> FALSE]
     ELSE IF u = << "B" >> THEN [value |-> number, err |-> FALSE]
     ELSE IF u = << "K", "B" >> THEN [value |-> kb, err |-> FALSE]
     ELSE IF u = << "M", "B" >> THEN [value |-> mb, err |-> FALSE]
     ELSE IF u = << "G", "B" >> THEN [value |-> gb, err |-> FALSE]
     ELSE [value |-> ZeroLimbs(7), err |-> TRUE]

\* Is the int64 x the number n of seven limbs.
IsNumber(x, n) == x[4] < LimbBase \div 2 /\ x \o << 0, 0, 0 >> = n

\* C20: ParseSize gives the number of bytes its trimmed input stands for,
\* and an error for an input that stands for none.
C20_ParseSize ==
  fop.name = "ParseSize" =>
    LET meant == BytesMeant(TrimSpace(fop.path))
    IN /\ fop.err = meant.err
       /\ ~meant.err => IsNumber(fop.value, meant.value)

\* The rules whose pattern matches the queried path or one of its suffixes.
Hits == { i \in 1..Len(rules) : PatternHits(rules[i], RelativePath(op.path)) }

\* C24: when the last-declared rule whose pattern matches is a non-negated
\* directory-only rule and the candidate is no directory or cannot be
\* stat'd, the answer is the one the earlier rules give: "ignore" for the
\* rules "build", "build/" and a regular file build, and "do not ignore"
\* when no earlier rule matches.
C24_SkippedDirectoryRule ==
  (QueriedUnderRoot /\ Hits # {}) =>
    LET last == Last(Hits) IN
      (rules[last].IsDirectory /\ ~rules[last].IsNegation /\ op.path \notin Dirs)
        => /\ op.ret = ShouldIgnoreOf(SubSeq(rules, 1, last - 1), rootDir, op.path)
           /\ (Hits = { last } => ~op.ret)
           /\ (scanned = << buildName, buildSlash >> => op.ret)

\* C24 witness: after parsing "build" and "build/", the regular file
\* src/build was asked about and ignored.
C24_Witness ==
  /\ scanned = << buildName, buildSlash >>
  /\ op.name = "ShouldIgnore"
  /\ op.path = Under(<< srcName, buildName >>)
  /\ op.ret

\* A path that cannot be stat'd met a directory-only rule and was kept.
C24_MissingWitness ==
  /\ scanned = << buildSlash >>
  /\ op.name = "ShouldIgnore"
  /\ op.path = Under(<< subName, buildName >>)
  /\ ~op.ret


\* C25: a call of ShouldIgnore changes neither rules, patterns, rootDir nor
\* the files; its answer is the one the rule list and the path determine, so
\* asking again for the same path gives the same answer whatever was asked
\* in between.
C25_QueriesReadOnly ==
  [][op'.name = "ShouldIgnore" =>
       /\ rules' = rules
       /\ patterns' = patterns
       /\ rootDir' = rootDir
       /\ content' = content
       /\ op'.ret = ShouldIgnoreOf(rules, rootDir, op'.path)
       /\ (op.name = "ShouldIgnore" /\ op.path = op'.path) => (op'.ret = op.ret)]_vars

\* C25 witness: with "*.log" and "build" parsed, other.log was asked about
\* and ignored.
C25_Witness ==
  /\ scanned = << starLog, buildName >>
  /\ Len(rules) = 2
  /\ op.name = "ShouldIgnore"
  /\ op.path = Under(<< otherLog >>)
  /\ op.ret


\* C30: whenever ParseSize returns no error its result is not negative and
\* is the parsed number times the multiplier of the unit, exactly.
C30_NoWraparound ==
  (fop.name = "ParseSize" /\ ~fop.err) =>
    /\ fop.value[4] < LimbBase \div 2
    /\ fop.value \o << 0, 0, 0 >> = BytesMeant(TrimSpace(fop.path)).value


\* A truncation message was written before the last call began.
TruncatedBefore ==
  \E k \in 1..fop.mark : writer[k].kind = "truncated"

\* The last call was for a file that exists and has content, after a
\* truncation message, in text format with a character limit.
LaterFile ==
  /\ format = "text" /\ ~limiter.nil /\ limiter.MaxTotalSize > 0
  /\ fop.name = "FormatFileContent"
  /\ TruncatedBefore
  /\ ~Stat(fop.path).err
  /\ fileLines(fop.path) # <<>>

\* No content line is written after a truncation message.
NoLineAfterTruncation ==
  (format = "text" /\ ~limiter.nil /\ limiter.MaxTotalSize > 0) =>
    \A j, k \in 1..Len(writer) :
      (j < k /\ writer[j].kind = "truncated") => writer[k].kind # "line"

HitsOf(path) == { i \in 1..Len(rules) : PatternHits(rules[i], RelativePath(path)) }

\* A negation rule declared after rule i matches the path.
LaterNegation(i, path) ==
  \E j \in HitsOf(path) : j > i /\ rules[j].IsNegation

\* C26: with the .gitignore files respected, a file below a directory under
\* the root that ShouldIgnore ignores is ignored as well unless a negation
\* rule declared after the deciding rule matches the file, and with the
\* root .gitignore "build/" no file under build/ is put out.
C26_DirectoryIgnoresBelow ==
  filter.GitIgnoreParser =>
    /\ \A d \in Dirs, f \in Files :
         (/\ HasPrefix(d, rootDir \o << "/" >>)
          /\ HasPrefix(f, d \o << "/" >>)
          /\ ShouldIgnoreOf(rules, rootDir, d))
           => \/ ShouldIgnoreOf(rules, rootDir, f)
              \/ LaterNegation(Last(HitsOf(d)), f)
    /\ content[rootIgnore] = << buildSlash >> =>
         \A k \in 1..Len(output) : ~HasPrefix(output[k], buildSlash)


\* The files named .gitignore under the root, in the order of the walk.
GitIgnoresWalked ==
  SelectSeq(Walk(rootDir), LAMBDA p : p \in Files /\ Base(p) = gitignoreName)

\* The lines of the files up to the first one that cannot be opened.
RECURSIVE linesUntilUnreadable(_)
linesUntilUnreadable(found) ==
  IF found = <<>> \/ Head(found) \notin DOMAIN content THEN <<>>
  ELSE content[Head(found)] \o linesUntilUnreadable(Tail(found))

\* C27: ParseAllGitIgnores appends the rules of the .gitignore files under
\* the root, in the order the walk reaches them, to one rule list and stops
\* with an error at the first file that cannot be opened; every rule is
\* evaluated against the root-relative path, whichever file it comes from,
\* so that "*.log" in src/.gitignore ignores other.log in the root.
C27_ParseAllGitIgnores ==
  /\ [][op'.name = "ParseAllGitIgnores" =>
          /\ GitIgnoresWalked = << rootIgnore, subIgnore >>
          /\ rules' = rules \o SourceOf(linesUntilUnreadable(GitIgnoresWalked)).rules
          /\ op'.err = (\E k \in 1..Len(GitIgnoresWalked) :
                          GitIgnoresWalked[k] \notin DOMAIN content)]_vars
  /\ [](QueriedUnderRoot =>
          /\ op.ret = ShouldIgnoreOf(SourceOf(scanned).rules, rootDir, op.path)
          /\ (scanned = << starLog >> /\ Ext(op.path) = << ".", "l", "o", "g" >>)
               => op.ret)

\* C27 witness: the root .gitignore is empty, "*.log" comes from
\* src/.gitignore, and other.log in the root was asked about and ignored.
C27_Witness ==
  /\ content = [f \in { rootIgnore, subIgnore } |->
                  IF f = rootIgnore THEN <<>> ELSE << starLog >>]
  /\ scanned = << starLog >>
  /\ op.name = "ShouldIgnore"
  /\ op.path = Under(<< otherLog >>)
  /\ op.ret

\* The walk ended with an error at the root .gitignore and the rules of
\* src/.gitignore were not read.
C27_AbortWitness ==
  /\ DOMAIN content = { subIgnore }
  /\ op.name = "ParseAllGitIgnores"
  /\ op.err
  /\ rules = <<>>


\* The paths of the entries below an entry, in the order of the tree.
RECURSIVE Entries(_)
RECURSIVE EntriesFrom(_, _)
Entries(entry) == EntriesFrom(entry.Children, 1)
EntriesFrom(children, i) ==
  IF i > Len(children) THEN <<>>
  ELSE << children[i].Path >> \o Entries(children[i]) \o EntriesFrom(children, i + 1)

\* The paths in the tree of the last scan.
Found == { Entries(root)[k] : k \in 1..Len(Entries(root)) }

\* Everything on disk below the directory scanned.
OnDiskBelow == { q \in Dirs \cup Files : HasPrefix(q, op.path \o << "/" >>) }

\* The path has a name beginning with '.' below the directory scanned.
DotBelow(q) ==
  \E k \in 1..Len(Split(From(q, Len(op.path) + 1))) :
    HasPrefix(Split(From(q, Len(op.path) + 1))[k], << "." >>)

\* C21: with include-dotfiles off the scanned tree holds what is on disk
\* below the root except the entries named with a leading '.' and everything
\* below such a directory, and ShouldInclude is false for every path whose
\* base name begins with '.'; with include-dotfiles on the tree holds
\* everything and a filter with no other setting includes every path.
C21_Dotfiles ==
  /\ op.name = "ShouldInclude" =>
       /\ (~filter.IncludeDotfiles /\ HasPrefix(Base(op.path), << "." >>)) => ~op.ret
       /\ (/\ filter.IncludeDotfiles
           /\ argv.extensions = <<>> /\ argv.exclude = <<>>
           /\ ~filter.GitIgnoreParser /\ ~filter.GitTrackedOnly) => op.ret
  /\ (op.name = "Scan" /\ ~op.err) =>
       Found = IF flags.includeDotfiles THEN OnDiskBelow
               ELSE { q \in OnDiskBelow : ~DotBelow(q) }

\* C21 witness: the root was scanned with include-dotfiles off and the tree
\* has neither .gitignore nor .hid nor what is below .hid.
C21_Witness ==
  /\ op.name = "Scan" /\ ~op.err
  /\ op.path = rootDirName
  /\ ~flags.includeDotfiles
  /\ Under(<< hiddenName, subName, mainGo >>) \in OnDiskBelow \ Found
  /\ Under(<< srcName, mainGo >>) \in Found

\* The dot file .gitignore was turned down with include-dotfiles off by a
\* filter without extensions and exclude patterns.
C21_FilterWitness ==
  /\ op.name = "ShouldInclude" /\ ~op.ret
  /\ op.path = Under(<< gitignoreName >>)
  /\ ~filter.IncludeDotfiles
  /\ argv.extensions = <<>> /\ argv.exclude = <<>>

\* The extensions a value of --extensions asks for: the pieces between the
\* commas, trimmed, each with a leading dot.
Wanted(extensions) ==
  { IF HasPrefix(TrimSpace(SplitOn(extensions, ",")[k]), << "." >>)
      THEN TrimSpace(SplitOn(extensions, ",")[k])
      ELSE << "." >> \o TrimSpace(SplitOn(extensions, ",")[k]) :
    k \in 1..Len(SplitOn(extensions, ",")) }

\* An exclude pattern of the filter matches the base name or the whole path.
Excluded(path) ==
  \E i \in 1..Len(filter.ExcludePatterns) :
    \/ Match(filter.ExcludePatterns[i], Base(path))
    \/ Match(filter.ExcludePatterns[i], path)

\* C22: with dotfiles allowed and no git settings, ShouldInclude is true
\* exactly when no exclude pattern matches the base name or the full path and
\* either there is no extension filter or the extension of the path is,
\* letter case included, one of the extensions asked for, which are stored
\* trimmed and with a leading dot; a path without extension is excluded
\* whenever there is an extension filter.
C22_ExtensionsAndExcludes ==
  (/\ op.name = "ShouldInclude"
   /\ filter.IncludeDotfiles /\ ~filter.GitIgnoreParser /\ ~filter.GitTrackedOnly)
    => /\ op.ret = (/\ ~Excluded(op.path)
                    /\ (argv.extensions = <<>> \/ Ext(op.path) \in Wanted(argv.extensions)))
       /\ argv.extensions # <<>> =>
            { filter.Extensions[i] : i \in 1..Len(filter.Extensions) }
              = Wanted(argv.extensions)
       /\ (argv.extensions # <<>> /\ Ext(op.path) = <<>>) => ~op.ret

\* C22 witness: with --extensions " .go , log" and no exclude pattern,
\* other.log was included.
C22_Witness ==
  /\ op.name = "ShouldInclude" /\ op.ret
  /\ filter.IncludeDotfiles /\ ~filter.GitIgnoreParser /\ ~filter.GitTrackedOnly
  /\ Len(filter.Extensions) = 2
  /\ argv.exclude = <<>>
  /\ op.path = Under(<< otherLog >>)

\* A path without extension was excluded by an extension filter alone.
C22_NoExtensionWitness ==
  /\ op.name = "ShouldInclude" /\ ~op.ret
  /\ filter.IncludeDotfiles /\ ~filter.GitIgnoreParser /\ ~filter.GitTrackedOnly
  /\ argv.extensions = goExt /\ argv.exclude = <<>>
  /\ op.path = Under(<< srcName, buildName >>)

\* The children are directories first and then files, each group ascending
\* by base name, in the entry and in every entry below it.
RECURSIVE AllOrdered(_)
AllOrdered(entry) ==
  /\ \A i, j \in 1..Len(entry.Children) :
       i < j =>
         \/ entry.Children[i].IsDir /\ ~entry.Children[j].IsDir
         \/ /\ entry.Children[i].IsDir = entry.Children[j].IsDir
            /\ Less(Base(entry.Children[i].Path), Base(entry.Children[j].Path))
  /\ \A k \in 1..Len(entry.Children) : AllOrdered(entry.Children[k])

\* No entry of the tree with the same parent comes after q.
IsLastChild(q) ==
  ~\E y \in Found \ {q} :
     /\ Dir(y) = Dir(q)
     /\ \/ q \in Dirs /\ y \notin Dirs
        \/ (q \in Dirs) = (y \in Dirs) /\ Less(Base(q), Base(y))

\* The indentation of the line of q: one piece for each directory between
\* the directory scanned and q.
RECURSIVE Indent(_)
Indent(q) ==
  IF Dir(q) = op.path THEN <<>>
  ELSE Indent(Dir(q)) \o (IF IsLastChild(Dir(q)) THEN blankIndent ELSE barIndent)

\* The line of the tree for q.
LineOf(q) ==
  Indent(q) \o (IF IsLastChild(q) THEN lastBranch ELSE midBranch)
    \o Base(q) \o (IF q \in Dirs THEN << "/" >> ELSE <<>>)

\* C23: in every scanned directory the children are directories first and
\* then files, each group ascending by base name, and GenerateTree prints
\* one line for each entry below the root, in depth-first order: the branch
\* of a last child or of another child, after the indentation its ancestors
\* give, then the name, with '/' after a directory name.
C23_TreeOrderAndLines ==
  (op.name = "Scan" /\ ~op.err) =>
    /\ AllOrdered(root)
    /\ Len(tree) = Len(Entries(root))
    /\ \A k \in 1..Len(tree) : tree[k] = LineOf(Entries(root)[k])

\* C23 witness: the root was scanned with dot entries, and .hid/sub/main.go
\* is printed below a child that is not the last and one that is.
C23_Witness ==
  /\ op.name = "Scan" /\ ~op.err
  /\ op.path = rootDirName
  /\ \E k \in 1..Len(tree) :
       tree[k] = barIndent \o blankIndent \o lastBranch \o mainGo
  /\ \E k \in 1..Len(tree) : tree[k] = midBranch \o srcName \o << "/" >>
  /\ tree[Len(tree)] = lastBranch \o otherLog


\* C29: with --stats and an analysis flag, a failure of CollectAdvancedStats
\* does not end the run in a nil pointer dereference.
C29_StatsFailureNotFatal ==
  (flags.statsFlag /\ flags.analysisFlag) => pc # "panic"

=============================================================================
